---- MODULE Spec2Model ----
(***************************************************************************)
(* The signal field of robin-smesh (robin-core): signals with decay and    *)
(* reinforcement (signals.rs) and the shared field that stores them        *)
(* (field.rs), under the specification Spec; and the swarm that drives the *)
(* workers over one field (robin-runtime, robin-agents, robin-cli), under  *)
(* the specification SpecSwarm.                                            *)
(*                                                                         *)
(* Numbers.  The code computes in f64; the model computes in exact         *)
(* fixed point:                                                            *)
(*   - times are integer milliseconds (chrono num_milliseconds), relative  *)
(*     to the instant Field::new() read the wall clock;                    *)
(*   - the f64 argument of tick is an integer number of microseconds, so   *)
(*     that arguments with a fractional-millisecond part exist;            *)
(*   - intensities are integers in units of 1/IScale;                      *)
(*   - confidences are integers in units of 1/CScale, where CScale is a    *)
(*     multiple of every denominator 10 + 5k the boost can have, so the    *)
(*     confidence arithmetic is exact;                                     *)
(*   - exp(-x) is computed in steps of 0.1 of the exponent (ExpStep).      *)
(***************************************************************************)
EXTENDS Integers, Sequences, FiniteSets, TLC

VARIABLES
    signals,       \* Field.signals: origin_hash -> Signal (the live map)
    history,       \* Field.history: expired signals, in the order they were moved
    current_time,  \* Field.current_time (ms)
    wall,          \* the wall clock Utc::now() (ms), read by SignalBuilder::build
    built,         \* origin_hash -> number of signals built with that hash
    steps,         \* number of operations so far
    emitted,       \* origin_hash -> number of emits received by the live signal
    external,      \* hashes whose live signal was reinforced through Field::reinforce
    fresh,         \* hashes inserted since the last tick
    last,          \* the last operation, its arguments and what it saw before it ran
    config,        \* SwarmConfig: tick_interval_ms, max_runtime_secs, enable_enrichment
    pc,            \* where the query command and Swarm::run stand
    idx,           \* position in Swarm.agents of the worker the loop is at
    ticks,         \* number of loop iterations that reached field.tick
    start,         \* `start` of Swarm::run: the instant the run began (ms)
    deadline,      \* the instant the ticker fires next (ms)
    processed,     \* worker id -> its local idempotency set
    active,        \* workers whose process activation has begun and not completed
    call,          \* the external call the driver is awaiting, or NoCall
    result,        \* what Swarm::run returned, "running" until it returns
    outcome,       \* worker id -> what its process returned in this iteration
    visits,        \* the heartbeat and process calls of this iteration, in order
    emit_log,      \* origin_hash -> the iteration and roster position of its last emit
    erred,         \* the iterations in which some process returned an error
    exit_code,     \* exit code of the command, -1 until it exits
    summary_file,  \* content of the summary file, "" while none was written
    agents,        \* Swarm.agents: the worker ids in the order the driver visits them
    priority,      \* query -> the priority submit_query was given (in 1/CScale)
    activation,    \* the process activation a direct caller began last: its progress
    summary_count, \* number of Summary signals built so far
    response,      \* the text the LLM answered to the filter's prompt
    indexed,       \* the indexed list the filter built: the urls, in order
    selected_indices, \* what filter_results returned
    filtered,      \* the FilteredResult payloads built, in order
    by_type,       \* what the last sense and sense_by_type of the field returned
    query,         \* the query string given to build_url, as code points
    encoded,       \* what urlencoded returned, as characters
    engine_results, \* the results of the engines of one crawl, flattened
    deduped,       \* what crawl_engines returned
    emitted_hashes \* `emitted` of the crawler's process: the hashes emit returned

fieldVars == <<signals, history, current_time, wall, built, steps, emitted, external,
               fresh, last>>

swarmVars == <<config, pc, idx, ticks, start, deadline, processed, active, call,
               result, outcome, visits, emit_log, erred, exit_code, summary_file, agents>>

agentVars == <<priority, activation, summary_count>>

filterVars == <<response, indexed, selected_indices, filtered>>

helperVars == <<by_type, query, encoded, engine_results, deduped, emitted_hashes>>

vars == <<fieldVars, swarmVars, agentVars, filterVars, helperVars>>

----------------------------------------------------------------------------
(* Bound of the exploration: the number of operations of a run *)

MaxSteps == 4

(* Inputs *)

Payloads == {"q1", "q2"}
AgentIds == {"agent-1", "agent-2"}

\* The agent ids passed to Field::reinforce: the emitting agents and one more.
ReinforcerIds == AgentIds \cup {"agent-3"}

\* f64 arguments of Field::tick, in microseconds: 0.0015 s, 2 s, 50 s, -1 s.
DtChoices == {1500, 2000000, 50000000, -1000000}

\* Wall-clock time that passes between two operations (ms).
WallSteps == {1000}

----------------------------------------------------------------------------
(* Fixed point *)

IScale == 10000

RECURSIVE Gcd(_, _)
Gcd(a, b) == IF b = 0 THEN a ELSE Gcd(b, a % b)

Lcm(a, b) == (a * b) \div Gcd(a, b)

RECURSIVE LcmUpTo(_)
LcmUpTo(k) == IF k = 0 THEN 20 ELSE Lcm(10 + 5 * k, LcmUpTo(k - 1))

\* One unit of confidence is 1/CScale; 0.05 and every boost are whole units.
CScale == LcmUpTo(Cardinality(ReinforcerIds))

Min(a, b) == IF a < b THEN a ELSE b
Max(a, b) == IF a > b THEN a ELSE b

\* f64 -> i64 conversion of `as`: truncation toward zero.
TruncDiv(a, b) == IF a >= 0 THEN a \div b ELSE -((-a) \div b)

\* e^(-0.1) in units of 1/IScale
ExpStep == 9048

\* v * exp(-0.1 * n), truncated at every step
RECURSIVE ExpDecay(_, _)
ExpDecay(v, n) ==
    IF n = 0 \/ v = 0 THEN v ELSE ExpDecay((v * ExpStep) \div IScale, n - 1)

----------------------------------------------------------------------------
(* signals.rs *)

DEFAULT_TTL == 60000
DEFAULT_DECAY_RATE == 1

\* Signal::compute_origin_hash: the digest of the payload's JSON followed by
\* the origin agent id.  The digest is modelled as collision free on the
\* inputs used: it is the pair of the two things that are hashed.
compute_origin_hash(payload, origin_agent_id) == <<payload, origin_agent_id>>

Hashes == {compute_origin_hash(p, a) : p \in Payloads, a \in AgentIds}

\* SignalBuilder::new followed by the setters a caller uses.  The values are
\* the raw arguments; build clamps them.
\*   intensity: 1/IScale, ttl: ms, decay_rate: 0.1/s, confidence: 1/CScale
DefaultCall ==
    [intensity |-> IScale, ttl |-> DEFAULT_TTL, decay_rate |-> DEFAULT_DECAY_RATE,
     decay_function |-> "Exponential", confidence |-> CScale]

ZeroTtlCall ==
    [intensity |-> IScale, ttl |-> -1000, decay_rate |-> DEFAULT_DECAY_RATE,
     decay_function |-> "Step", confidence |-> CScale \div 2]

LinearCall ==
    [intensity |-> IScale, ttl |-> 2000, decay_rate |-> DEFAULT_DECAY_RATE,
     decay_function |-> "Linear", confidence |-> (CScale * 19) \div 20]

FaintCall ==
    [intensity |-> 50, ttl |-> DEFAULT_TTL, decay_rate |-> -1,
     decay_function |-> "Exponential", confidence |-> -CScale]

\* The builder calls the agents make for each payload.
BuilderCalls(payload) ==
    IF payload = "q1" THEN {DefaultCall, LinearCall} ELSE {ZeroTtlCall, FaintCall}

clamp(x, lo, hi) == IF x < lo THEN lo ELSE IF x > hi THEN hi ELSE x

\* SignalBuilder::intensity / ttl / decay_rate / confidence and ::build
build(b, payload, origin_agent_id, now, id) ==
    [ id |-> id,
      origin_hash |-> compute_origin_hash(payload, origin_agent_id),
      payload |-> payload,
      intensity |-> clamp(b.intensity, 0, IScale),
      current_intensity |-> clamp(b.intensity, 0, IScale),
      ttl |-> Max(b.ttl, 0),
      decay_rate |-> Max(b.decay_rate, 0),
      decay_function |-> b.decay_function,
      confidence |-> clamp(b.confidence, 0, CScale),
      origin_agent_id |-> origin_agent_id,
      created_at |-> now,
      reinforcement_count |-> 0,
      reinforced_by |-> <<>> ]

\* Mutant of compute_intensity: the guard for a negative age is missing.
compute_intensity_no_guard(s, now) ==
    LET age == now - s.created_at
    IN  IF age >= s.ttl THEN 0
        ELSE CASE s.decay_function = "Exponential" ->
                    ExpDecay(s.intensity, (s.decay_rate * age) \div 1000)
               [] s.decay_function = "Linear" ->
                    Max((s.intensity * (s.ttl - age)) \div s.ttl, 0)
               [] s.decay_function = "Step" ->
                    IF age < s.ttl THEN s.intensity ELSE 0

\* Signal::compute_intensity
compute_intensity(s, now) ==
    LET age == now - s.created_at
    IN  IF age < 0 THEN s.intensity
        ELSE IF age >= s.ttl THEN 0
        ELSE CASE s.decay_function = "Exponential" ->
                    ExpDecay(s.intensity, (s.decay_rate * age) \div 1000)
               [] s.decay_function = "Linear" ->
                    Max((s.intensity * (s.ttl - age)) \div s.ttl, 0)
               [] s.decay_function = "Step" ->
                    IF age < s.ttl THEN s.intensity ELSE 0

\* 0.01, the intensity below which a signal is expired
ExpiryThreshold == IScale \div 100

\* Mutant of is_expired: only the ttl is tested, not the decayed intensity.
is_expired_ttl_only(s, now) == now - s.created_at >= s.ttl

\* Signal::is_expired
is_expired(s, now) ==
    LET age == now - s.created_at
    IN  age >= s.ttl \/ compute_intensity(s, now) < ExpiryThreshold

Contains(seq, x) == \E i \in 1..Len(seq) : seq[i] = x

\* Mutant of Boost: the boost computed from the count before the increment.
Boost_before_increment(count) == CScale \div (10 + 5 * (count - 1))

\* the boost 0.1 / (1 + 0.5 * count) = 1 / (10 + 5 * count)
Boost(count) == CScale \div (10 + 5 * count)

\* Mutant of reinforce: the reinforcer is recorded without the contains test.
reinforce_no_check(s, reinforcer_id) ==
    [s EXCEPT !.reinforced_by = Append(@, reinforcer_id),
              !.reinforcement_count = @ + 1,
              !.confidence = Min(@ + Boost(s.reinforcement_count + 1), CScale)]

\* Mutant of reinforce: the boosted confidence is not clamped to 1.
reinforce_no_clamp(s, reinforcer_id) ==
    IF ~Contains(s.reinforced_by, reinforcer_id)
    THEN [s EXCEPT !.reinforced_by = Append(@, reinforcer_id),
                   !.reinforcement_count = @ + 1,
                   !.confidence = @ + Boost(s.reinforcement_count + 1)]
    ELSE s

\* Signal::reinforce
reinforce(s, reinforcer_id) ==
    IF ~Contains(s.reinforced_by, reinforcer_id)
    THEN [s EXCEPT !.reinforced_by = Append(@, reinforcer_id),
                   !.reinforcement_count = @ + 1,
                   !.confidence = Min(@ + Boost(s.reinforcement_count + 1), CScale)]
    ELSE s

----------------------------------------------------------------------------
(* field.rs *)

\* Field.max_history is 10000 in Field::new; the model scales it down so that
\* a full history is reached.
max_history == 2

\* the map m with key k set to v (HashMap::insert)
Insert(m, k, v) == [x \in DOMAIN m \cup {k} |-> IF x = k THEN v ELSE m[x]]

\* the map m without the keys in ks (HashMap::remove)
Remove(m, ks) == [x \in DOMAIN m \ ks |-> m[x]]

\* Mutant of emit: the signal is stored under its instance id.
emit_by_id(sigs, signal) == Insert(sigs, signal.id, signal)

\* Mutant of emit: HashMap::insert without the lookup, replacing a stored signal.
emit_replace(sigs, signal) == Insert(sigs, signal.origin_hash, signal)

\* Mutant of emit: a re-emission also restarts the stored signal's lifetime.
emit_refresh(sigs, signal) ==
    LET hash == signal.origin_hash
    IN  IF hash \in DOMAIN sigs
        THEN [sigs EXCEPT ![hash] =
                 [reinforce(@, signal.origin_agent_id) EXCEPT !.created_at = signal.created_at]]
        ELSE Insert(sigs, hash, signal)

\* Mutant of emit: an emit whose origin_hash is only in history brings the
\* expired signal back instead of inserting the new one.
emit_revive(sigs, signal) ==
    LET hash == signal.origin_hash
        copies == {i \in DOMAIN history : history[i].origin_hash = hash}
    IN  IF hash \in DOMAIN sigs
        THEN [sigs EXCEPT ![hash] = reinforce(@, signal.origin_agent_id)]
        ELSE IF copies # {}
             THEN Insert(sigs, hash, history[CHOOSE i \in copies : TRUE])
             ELSE Insert(sigs, hash, signal)

\* Field::emit, the new live map
emit(sigs, signal) ==
    LET hash == signal.origin_hash
    IN  IF hash \in DOMAIN sigs
        THEN [sigs EXCEPT ![hash] = reinforce(@, signal.origin_agent_id)]
        ELSE Insert(sigs, hash, signal)

\* Field::tick, the new current_time
tick_time(now, dt_us) == now + TruncDiv(dt_us, 1000)

\* Field::tick, the loop that refreshes current_intensity
tick_refresh(sigs, now) ==
    [h \in DOMAIN sigs |-> [sigs[h] EXCEPT !.current_intensity = compute_intensity(sigs[h], now)]]

\* Mutant of tick: the loop stops at the first expired signal it finds.
tick_expired_first(sigs, now) ==
    LET all == {h \in DOMAIN sigs : is_expired(sigs[h], now)}
    IN  IF all = {} THEN {} ELSE {CHOOSE h \in all : TRUE}

\* Field::tick, the hashes collected in `expired`
tick_expired(sigs, now) == {h \in DOMAIN sigs : is_expired(sigs[h], now)}

\* Field::reinforce, the new live map
field_reinforce(sigs, hash, agent_id) ==
    IF hash \in DOMAIN sigs
    THEN [sigs EXCEPT ![hash] = reinforce(@, agent_id)]
    ELSE sigs

\* Field::active_count
active_count == Cardinality(DOMAIN signals)

\* the orders in which a loop over a HashMap can visit the keys in S
Orders(S) ==
    {o \in [1..Cardinality(S) -> S] : \A i, j \in 1..Cardinality(S) : o[i] = o[j] => i = j}

\* Mutant of tick: expired signals are pushed without the capacity test.
push_history_unbounded(hist, moved) == hist \o moved

\* Field::tick, moving the expired signals to history while it has room
RECURSIVE push_history(_, _)
push_history(hist, moved) ==
    IF moved = <<>> THEN hist
    ELSE push_history(IF Len(hist) < max_history THEN Append(hist, Head(moved)) ELSE hist,
                      Tail(moved))

----------------------------------------------------------------------------
(* The state machine *)

NoSignal == [id |-> <<>>]

NoOp == [kind |-> "new", hash |-> <<>>, agent |-> "", dt |-> 0, time |-> 0,
         count |-> 0, before |-> NoSignal, given |-> NoSignal]

\* No swarm owns the field: the field is driven by its callers directly.
NoCall == [agent |-> "", never |-> FALSE, work |-> {}, idx |-> 0, tick |-> 0]

Idle(at) ==
    /\ config = [tick_interval_ms |-> 0, max_runtime_secs |-> 0, enable_enrichment |-> FALSE]
    /\ pc = at
    /\ idx = 0
    /\ ticks = 0
    /\ start = 0
    /\ deadline = 0
    /\ processed = <<>>
    /\ active = {}
    /\ call = NoCall
    /\ result = "running"
    /\ outcome = <<>>
    /\ visits = <<>>
    /\ emit_log = <<>>
    /\ erred = {}
    /\ exit_code = -1
    /\ summary_file = ""
    /\ agents = <<>>

NoSwarm == Idle("none")

\* No process activation was begun by a direct caller.
NoActivation ==
    [agent |-> "", open |-> FALSE, item |-> "", rest |-> {}, attempted |-> {},
     failed |-> {}, empty |-> {}, calls |-> 0, emits |-> {}, result |-> "",
     before |-> <<>>, seen |-> {}, source_count |-> 0]

\* No worker is driven directly.
NoAgents ==
    /\ activation = NoActivation
    /\ summary_count = 0

\* No filter prompt was answered.
NoFilter ==
    /\ response = <<>>
    /\ indexed = <<>>
    /\ selected_indices = <<>>
    /\ filtered = <<>>

\* No view of the field was taken, no url built and no crawl made.
NoHelpers ==
    /\ by_type = <<>>
    /\ query = <<>>
    /\ encoded = <<>>
    /\ engine_results = <<>>
    /\ deduped = <<>>
    /\ emitted_hashes = <<>>

\* Field::new
NewField ==
    /\ signals = <<>>
    /\ history = <<>>
    /\ current_time = 0
    /\ wall = 0
    /\ built = [h \in Hashes |-> 0]
    /\ steps = 0
    /\ emitted = [h \in Hashes |-> 0]
    /\ external = {}
    /\ fresh = {}
    /\ last = NoOp

Init ==
    /\ NewField
    /\ NoSwarm
    /\ priority = <<>>
    /\ NoAgents
    /\ NoFilter
    /\ NoHelpers

Stored(h) == IF h \in DOMAIN signals THEN signals[h] ELSE NoSignal

\* Time passes on the wall clock.
Elapse(ms) ==
    /\ steps < MaxSteps
    /\ wall' = wall + ms
    /\ steps' = steps + 1
    /\ last' = [NoOp EXCEPT !.kind = "elapse", !.time = current_time, !.count = active_count]
    /\ UNCHANGED <<signals, history, current_time, built, emitted, external, fresh>>
    /\ UNCHANGED <<swarmVars, agentVars, filterVars, helperVars>>

\* An agent builds a signal and emits it: Signal::builder(..).build() and
\* Field::emit.  The id stands for Uuid::new_v4(): no two builds share one.
Emit(payload, agent, b) ==
    LET hash == compute_origin_hash(payload, agent)
        signal == build(b, payload, agent, wall, <<payload, agent, built[hash] + 1>>)
    IN  /\ steps < MaxSteps
        /\ signals' = emit(signals, signal)
        /\ built' = [built EXCEPT ![hash] = @ + 1]
        /\ steps' = steps + 1
        /\ emitted' = [emitted EXCEPT ![hash] = @ + 1]
        /\ fresh' = IF hash \in DOMAIN signals THEN fresh ELSE fresh \cup {hash}
        /\ last' = [kind |-> "emit", hash |-> hash, agent |-> agent, dt |-> 0,
                    time |-> current_time, count |-> active_count,
                    before |-> Stored(hash), given |-> signal]
        /\ UNCHANGED <<history, current_time, wall, external>>
        /\ UNCHANGED <<swarmVars, agentVars, filterVars, helperVars>>

\* Field::tick.  The loop over the HashMap collects the expired hashes in an
\* order the code does not determine.
Tick(dt_us) ==
    LET now == tick_time(current_time, dt_us)
        refreshed == tick_refresh(signals, now)
        expired == tick_expired(refreshed, now)
    IN  /\ steps < MaxSteps
        /\ current_time' = now
        /\ signals' = Remove(refreshed, expired)
        /\ \E order \in Orders(expired) :
               history' = push_history(history, [i \in DOMAIN order |-> refreshed[order[i]]])
        /\ steps' = steps + 1
        /\ emitted' = [h \in Hashes |-> IF h \in expired THEN 0 ELSE emitted[h]]
        /\ external' = external \ expired
        /\ fresh' = {}
        /\ last' = [kind |-> "tick", hash |-> <<>>, agent |-> "", dt |-> dt_us,
                    time |-> current_time, count |-> active_count,
                    before |-> NoSignal, given |-> NoSignal]
        /\ UNCHANGED <<wall, built>>
        /\ UNCHANGED <<swarmVars, agentVars, filterVars, helperVars>>

\* Field::reinforce
Reinforce(hash, agent) ==
    /\ steps < MaxSteps
    /\ signals' = field_reinforce(signals, hash, agent)
    /\ steps' = steps + 1
    /\ external' = IF hash \in DOMAIN signals THEN external \cup {hash} ELSE external
    /\ last' = [kind |-> "reinforce", hash |-> hash, agent |-> agent, dt |-> 0,
                time |-> current_time, count |-> active_count,
                before |-> Stored(hash), given |-> NoSignal]
    /\ UNCHANGED <<history, current_time, wall, built, emitted, fresh>>
    /\ UNCHANGED <<swarmVars, agentVars, filterVars, helperVars>>

Next ==
    \/ \E ms \in WallSteps : Elapse(ms)
    \/ \E p \in Payloads, a \in AgentIds : \E b \in BuilderCalls(p) : Emit(p, a, b)
    \/ \E dt \in DtChoices : Tick(dt)
    \/ \E h \in Hashes, a \in ReinforcerIds : Reinforce(h, a)

Spec == Init /\ [][Next]_vars

----------------------------------------------------------------------------
(* Properties *)

Live == DOMAIN signals

\* The signals the field holds, live or in history.
AllSignals == {signals[h] : h \in Live} \cup {history[i] : i \in DOMAIN history}

\* The last operation was an emit whose origin_hash was live.
ReEmitted == last.kind = "emit" /\ last.before # NoSignal

\* The last operation called Signal::reinforce on a stored signal.
Reinforced == last.kind \in {"emit", "reinforce"} /\ last.before # NoSignal

\* The stored signal the last operation acted on, as it is now.
After == signals[last.hash]

NoDuplicates(seq) == \A i, j \in 1..Len(seq) : seq[i] = seq[j] => i = j

\* C1: the live map holds at most one signal per origin_hash, and an emit
\* whose origin_hash is already live does not increase active_count.
C1_OneLivePerHash ==
    /\ \A k1, k2 \in Live : signals[k1].origin_hash = signals[k2].origin_hash => k1 = k2
    /\ ReEmitted => active_count <= last.count

C1_Witness == ReEmitted /\ active_count >= 2

\* C2: n >= 2 emits of the same payload from the same origin, with no expiry
\* and no other reinforcement in between, leave one live signal whose
\* reinforcement_count is 1; after one emit it is 0.
C2_SameOriginCountsOnce ==
    \A h \in Live :
        h \notin external =>
            /\ emitted[h] >= 1
            /\ emitted[h] = 1 => signals[h].reinforcement_count = 0
            /\ emitted[h] >= 2 => /\ signals[h].reinforcement_count = 1
                                  /\ signals[h].reinforced_by = <<signals[h].origin_agent_id>>
            /\ Cardinality({k \in Live : signals[k].payload = signals[h].payload
                                          /\ signals[k].origin_agent_id = signals[h].origin_agent_id}) = 1

C2_Witness == \E h \in Live : h \notin external /\ emitted[h] >= 3

\* C3 (as claimed): when two different agents emit the same payload content,
\* the field keeps one live signal for that content: no two live signals
\* carry the same payload.
C3_Claimed_OneLivePerPayload ==
    \A k1, k2 \in Live : signals[k1].payload = signals[k2].payload => k1 = k2

\* The claims' own reading of "expired" at the field's current time.
ExpiredNow(s) ==
    \/ current_time - s.created_at >= s.ttl
    \/ compute_intensity(s, current_time) < IScale \div 100

\* C4: immediately after Field::tick returns, no live signal is expired at
\* the field's current_time.
C4_NoExpiredAfterTick ==
    last.kind = "tick" => \A h \in Live : ~ExpiredNow(signals[h])

\* a tick that removed a signal and kept another
C4_Witness == last.kind = "tick" /\ 0 < active_count /\ active_count < last.count

\* C5 (as claimed): in every reachable state every live signal is unexpired.
C5_Claimed_AlwaysUnexpired == \A h \in Live : ~ExpiredNow(signals[h])

\* C5 (amended): every live signal that was already live when the last tick
\* returned is unexpired; only a signal inserted since the last tick can be
\* live and expired.
C5_UnexpiredUnlessFresh == \A h \in Live \ fresh : ~ExpiredNow(signals[h])

\* a signal that survived a tick, beside a live signal that is expired
C5_Witness ==
    /\ Live \ fresh # {}
    /\ \E h \in fresh : h \in Live /\ ExpiredNow(signals[h])

\* C6: for every signal, reinforcement_count is the length of reinforced_by
\* and reinforced_by holds no agent id twice.
C6_CountMatchesReinforcers ==
    \A s \in AllSignals :
        /\ s.reinforcement_count = Len(s.reinforced_by)
        /\ NoDuplicates(s.reinforced_by)

\* a reinforcer that was already recorded reinforced again
C6_Witness ==
    /\ Reinforced
    /\ Contains(last.before.reinforced_by, last.agent)
    /\ After.reinforcement_count = 2

\* C7: a reinforce call never lowers the confidence, and the confidence stays
\* within [0, 1].
C7_ConfidenceMonotoneBounded ==
    /\ \A s \in AllSignals : 0 <= s.confidence /\ s.confidence <= CScale
    /\ Reinforced => After.confidence >= last.before.confidence

\* a reinforcement that was cut off at confidence 1
C7_Witness ==
    /\ Reinforced
    /\ last.before.confidence < CScale
    /\ After.confidence = CScale
    /\ After.reinforcement_count = last.before.reinforcement_count + 1

\* C8: the k-th distinct reinforcement raises the confidence by
\* min(1 - confidence, 0.1 / (1 + 0.5 k)), a repeated reinforcer changes
\* nothing, and a second identical emission raises reinforcement_count from
\* 0 to 1 and the confidence by at most 0.1 / 1.5.
C8_BoostDiminishes ==
    Reinforced =>
        LET c0 == last.before.confidence
            k == last.before.reinforcement_count + 1
            new == ~Contains(last.before.reinforced_by, last.agent)
        IN  /\ new => /\ After.reinforcement_count = k
                      /\ (10 + 5 * k) * (After.confidence - c0)
                            = Min((10 + 5 * k) * (CScale - c0), CScale)
            /\ ~new => After = last.before
            /\ (ReEmitted /\ last.before.reinforcement_count = 0) =>
                   /\ After.reinforcement_count = 1
                   /\ 15 * (After.confidence - c0) <= CScale

\* the third distinct reinforcement, not cut off at 1
C8_Witness ==
    /\ Reinforced
    /\ After.reinforcement_count = 3
    /\ last.before.reinforcement_count = 2
    /\ After.confidence < CScale
    /\ After.confidence > last.before.confidence

\* C9: an emit whose origin_hash is live adds no entry and changes only the
\* stored signal's reinforced_by, reinforcement_count and confidence.
C9_ReEmitFrame ==
    ReEmitted =>
        /\ active_count = last.count
        /\ After = [last.before EXCEPT !.reinforced_by = After.reinforced_by,
                                       !.reinforcement_count = After.reinforcement_count,
                                       !.confidence = After.confidence]

\* a re-emission of a signal built later and with another ttl than the stored one
C9_Witness ==
    /\ ReEmitted
    /\ last.given.created_at # After.created_at
    /\ last.given.ttl # After.ttl
    /\ last.given.id # After.id

\* C10 (as claimed): tick(dt) advances current_time by exactly dt.
C10_Claimed_AdvancesExactly ==
    last.kind = "tick" => (current_time - last.time) * 1000 = last.dt

\* C11 (as claimed): no Field::tick call moves current_time backwards.
C11_Claimed_TimeNonDecreasing == last.kind = "tick" => current_time >= last.time

\* C12 (as claimed): after a tick with a positive dt no signal with ttl = 0
\* is live.
C12_Claimed_ZeroTtlGoneAfterTick ==
    (last.kind = "tick" /\ last.dt > 0) => \A h \in Live : signals[h].ttl # 0

\* Times at which the intensity of s is probed: before its creation, while
\* it decays, and at and after its ttl.
ProbeTimes(s) ==
    {current_time, wall} \cup
    {s.created_at + d : d \in {-1000, 0, 1, 1000, s.ttl - 1, s.ttl, s.ttl + 1000}}

C14_HistoryBounded ==
    [][ LET removed == DOMAIN signals \ DOMAIN signals'
        IN  /\ Len(history') <= max_history
            /\ SubSeq(history', 1, Len(history)) = history
            /\ Len(history') = Min(max_history, Len(history) + Cardinality(removed))
            /\ \A i \in (Len(history) + 1)..Len(history') :
                   history'[i].origin_hash \in removed ]_vars

\* a tick that removed more signals than history has room for
C14_Witness ==
    /\ last.kind = "tick"
    /\ last.count - active_count > max_history
    /\ Len(history) = max_history

----------------------------------------------------------------------------
(***************************************************************************)
(* The swarm (robin-runtime swarm.rs), its workers (robin-agents) and the  *)
(* query command (robin-cli main.rs).  The swarm owns one field; the       *)
(* workers read and write it through the operators above.  A payload is a  *)
(* record [kind, arg]: the OsintPayload variant and the field of it that   *)
(* tells two payloads of the variant apart (the url, the capacity).        *)
(***************************************************************************)

(* Bounds of the exploration *)

\* Loop iterations of Swarm::run that are followed.
MaxTicks == 3

(* Inputs *)

\* SwarmConfig.num_crawlers and num_scrapers
num_crawlers == 2
num_scrapers == 1

\* SwarmConfig: tick_interval_ms is the command's 500 or a slower 5000,
\* max_runtime_secs is 0 (unlimited) or 6, with and without the enricher.
SwarmConfig(interval, runtime, enrich) ==
    [tick_interval_ms |-> interval, max_runtime_secs |-> runtime, enable_enrichment |-> enrich]

Configs ==
    {SwarmConfig(500, 6, FALSE), SwarmConfig(5000, 0, FALSE),
     SwarmConfig(500, 0, TRUE), SwarmConfig(5000, 6, TRUE)}

\* The urls the search engines can return for the query.
Urls == {"u1", "u2", "u3"}

\* Wall-clock time between Field::new reading the clock and the start of
\* the run (ms).
SetupMs == {1}

\* Wall-clock time an external call takes when it returns (ms).
CallMs == {3000}

\* Wall-clock time that passes in one step while a call that never returns is
\* awaited (ms), and how long such a wait is followed.
StallMs == 4000
StallCap == 8000

----------------------------------------------------------------------------
(* Workers *)

\* Swarm::init_agents: the roster, in the order the agents are pushed.
Roster(c) ==
    <<"refiner-1">>
    \o [i \in 1..num_crawlers |-> IF i = 1 THEN "crawler-1" ELSE "crawler-2"]
    \o <<"filter-1">>
    \o [i \in 1..num_scrapers |-> IF i = 1 THEN "scraper-1" ELSE "scraper-2"]
    \o <<"extractor-1">>
    \o (IF c.enable_enrichment THEN <<"enricher-1">> ELSE <<>>)
    \o <<"analyst-1">>

\* OsintAgent::agent_type
agent_type(a) ==
    CASE a = "refiner-1" -> "refiner"
      [] a \in {"crawler-1", "crawler-2"} -> "crawler"
      [] a = "filter-1" -> "filter"
      [] a \in {"scraper-1", "scraper-2"} -> "scraper"
      [] a = "extractor-1" -> "extractor"
      [] a = "enricher-1" -> "enricher"
      [] a = "analyst-1" -> "analyst"

Payload(kind, arg) == [kind |-> kind, arg |-> arg]

\* The builder calls of the workers: ttl and confidence as the code sets
\* them, the other fields as SignalBuilder::new leaves them.
Call(ttl_ms, confidence) == [DefaultCall EXCEPT !.ttl = ttl_ms, !.confidence = confidence]

\* Mutant of submit_query: the priority is taken as the confidence.
UserQueryCall_priority == Call(300000, priority[CHOOSE q \in DOMAIN priority : TRUE])

UserQueryCall == Call(300000, CScale)
HeartbeatCall == Call(10000, CScale)
\* `.confidence(*priority)`: the priority submit_query gave the query
RefinedQueryCall(q) == Call(120000, priority[q])
RawResultCall == Call(90000, (CScale * 7) \div 10)
FilteredResultCall == Call(120000, (CScale * 85) \div 100)
ScrapedContentCall == Call(180000, (CScale * 9) \div 10)
ExtractedArtifactsCall == Call(180000, (CScale * 85) \div 100)
EnrichedArtifactsCall == Call(120000, (CScale * 7) \div 10)
SummaryCall == Call(300000, (CScale * 95) \div 100)

\* Signal::effective_intensity(now) >= tenths / 10
effective_at_least(s, now, tenths) ==
    LET base == compute_intensity(s, now)
        boost == 10 + Min(s.reinforcement_count, 5)
    IN  Min(base * s.confidence * boost, 10 * IScale * CScale) >= tenths * IScale * CScale

\* AgentConfig::default().sensing_threshold, in tenths
sensing_threshold == 1

\* Field::sense_where with a predicate on the payload variant
sense_kind(sigs, kind) == {h \in DOMAIN sigs : sigs[h].payload.kind = kind}

\* The key of the local set that a payload carries: its query or its url.
\* Two FilteredResult payloads of one url differ in their relevance and
\* reason, which follow the rank; "u1#2" stands for the FilteredResult of
\* u1 at a second rank.
key_of(arg) == IF arg = "u1#2" THEN "u1" ELSE arg

\* The sense of the refiner, crawler, scraper and extractor: signals of one
\* variant at or above the threshold whose key is not in the local set.
sense_new(sigs, now, kind, seen) ==
    {h \in sense_kind(sigs, kind) :
        /\ effective_at_least(sigs[h], now, sensing_threshold)
        /\ key_of(sigs[h].payload.arg) \notin seen}

\* Field::sense_by_type(min).extracted_artifacts as the enricher filters it
sense_artifacts(sigs, now, tenths, seen) ==
    {h \in sense_kind(sigs, "ExtractedArtifacts") :
        /\ effective_at_least(sigs[h], now, tenths)
        /\ sigs[h].payload.arg \notin seen}

\* The capacity a worker's heartbeat reports.
capacity(a, seen) ==
    CASE agent_type(a) = "crawler" -> IF Cardinality(seen) < 3 THEN "1.0" ELSE "0.5"
      [] agent_type(a) = "scraper" -> IF Cardinality(seen) < 10 THEN "1.0" ELSE "0.5"
      [] agent_type(a) = "analyst" -> IF "summary" \in seen THEN "0.0" ELSE "1.0"
      [] OTHER -> "1.0"

\* Mutant of the in-flight limit: two urls per activation.
max_concurrent_two == 3 - 1

\* AgentConfig::default().max_concurrent
max_concurrent == 3

\* The first n elements a loop over the set takes: any n of them.
Take(S, n) == {T \in SUBSET S : Cardinality(T) = Min(n, Cardinality(S))}

\* Builds one signal per payload and emits them to the field.
\* Builds one signal per payload and emits them to the field.  A worker
\* builds a payload at most once in an iteration, so <<payload, worker, n>>
\* with n the iteration stands for the Uuid of the signal.
RECURSIVE emit_all(_, _, _, _, _, _)
emit_all(sigs, payloads, b, a, now, n) ==
    IF payloads = {} THEN sigs
    ELSE LET p == CHOOSE x \in payloads : TRUE
             signal == build(b, p, a, now, <<p, a, n>>)
         IN  emit_all(emit(sigs, signal), payloads \ {p}, b, a, now, n)

\* The payload args of a set of signals.
Args(sigs, hs) == {sigs[h].payload.arg : h \in hs}

\* What a worker's process finds when it starts: the inputs it would work on.
sensed(a, sigs, now, seen) ==
    CASE agent_type(a) = "refiner" -> Args(sigs, sense_new(sigs, now, "UserQuery", seen))
      [] agent_type(a) = "crawler" -> Args(sigs, sense_new(sigs, now, "RefinedQuery", seen))
      [] agent_type(a) = "filter" ->
            IF sense_kind(sigs, "RefinedQuery") = {} THEN {}
            ELSE Args(sigs, sense_kind(sigs, "RawResult"))
      [] agent_type(a) = "scraper" -> Args(sigs, sense_new(sigs, now, "FilteredResult", seen))
      [] agent_type(a) = "extractor" -> Args(sigs, sense_new(sigs, now, "ScrapedContent", seen))
      [] agent_type(a) = "enricher" -> Args(sigs, sense_artifacts(sigs, now, 3, seen))
      [] agent_type(a) = "analyst" -> Args(sigs, sense_kind(sigs, "ScrapedContent"))

\* The inputs one activation takes from what it sensed: the scraper takes
\* max_concurrent of them, the others all.
WorkChoices(a, found) ==
    IF agent_type(a) = "scraper" THEN Take(found, max_concurrent) ELSE {found}

\* Mutant of the analyst's threshold: two content signals are enough.
min_content_two == 3 - 1

\* The number of ScrapedContent signals below which the analyst waits.
min_content == 3

\* A process that ended: its result, the worker's local set and its emits.
Ended(res, seen, kind, args, b) ==
    [result |-> res, seen |-> seen, emits |-> {Payload(kind, x) : x \in args}, b |-> b]

\* A process that reached an external call and is suspended there.
Suspended(seen) == Ended("Await", seen, "", {}, DefaultCall)

\* OsintAgent::process up to its first external call (or to its end, when it
\* makes none).  `work` is what the activation takes, `hit` whether the
\* extractor's patterns find artifacts in the content.
begin(a, sigs, seen, found, work, hit) ==
    CASE agent_type(a) = "refiner" ->
            IF found = {} THEN Ended("NoWork", seen, "", {}, DefaultCall)
            ELSE Suspended(seen)
      [] agent_type(a) = "crawler" ->
            IF found = {} THEN Ended("NoWork", seen, "", {}, DefaultCall)
            ELSE Suspended(seen \cup work)
      [] agent_type(a) = "filter" ->
            IF found = {} THEN Ended("NoWork", seen, "", {}, DefaultCall)
            ELSE Suspended(seen)
      [] agent_type(a) = "scraper" ->
            IF found = {} THEN Ended("NoWork", seen, "", {}, DefaultCall)
            ELSE Suspended(seen \cup {key_of(x) : x \in work})
      [] agent_type(a) = "extractor" ->
            IF found = {} THEN Ended("NoWork", seen, "", {}, DefaultCall)
            ELSE Ended("Ok", seen \cup work, "ExtractedArtifacts",
                       IF hit THEN work ELSE {}, ExtractedArtifactsCall)
      [] agent_type(a) = "enricher" ->
            IF found = {} THEN Ended("Ok", seen, "", {}, DefaultCall)
            ELSE Suspended(seen \cup work)
      [] agent_type(a) = "analyst" ->
            IF "summary" \in seen THEN Ended("NoWork", seen, "", {}, DefaultCall)
            ELSE IF Cardinality(sense_kind(sigs, "ScrapedContent")) < min_content
                 THEN Ended("NotReady", seen, "", {}, DefaultCall)
                 ELSE Suspended(seen)

\* Mutant of the analyst's flag: it is never set.
summary_never_generated(seen) == seen

\* `self.summary_generated = true`: the analyst's local state after its
\* summary was generated.
summary_generated(seen) == seen \cup {"summary"}

\* What an external call can answer: the LLM answers or fails, the network
\* returns data or nothing.
Replies == {"ok", "fail"}

\* OsintAgent::process from the return of its external call to its end.
\* The external calls of one activation (the scraper's one per url, the
\* enricher's one per artifact) are taken as one call, and the emits follow
\* its return.  A FilteredResult is told apart by its url alone (its
\* relevance and reason, which follow the rank, are left out).
finish(a, seen, work, reply) ==
    CASE agent_type(a) = "refiner" ->
            IF reply = "ok"
            THEN Ended("Ok", seen \cup work, "RefinedQuery", work,
                       RefinedQueryCall(CHOOSE q \in work : TRUE))
            ELSE Ended("Llm", seen, "", {}, DefaultCall)
      [] agent_type(a) = "crawler" ->
            Ended("Ok", seen, "RawResult", IF reply = "ok" THEN Urls ELSE {}, RawResultCall)
      [] agent_type(a) = "filter" ->
            IF reply = "ok"
            THEN Ended("Ok", seen, "FilteredResult", work, FilteredResultCall)
            ELSE Ended("Llm", seen, "", {}, DefaultCall)
      [] agent_type(a) = "scraper" ->
            Ended("Ok", seen, "ScrapedContent",
                  IF reply = "ok" THEN {key_of(x) : x \in work} ELSE {}, ScrapedContentCall)
      [] agent_type(a) = "extractor" -> Ended("Ok", seen, "", {}, DefaultCall)
      [] agent_type(a) = "enricher" ->
            Ended("Ok", seen, "EnrichedArtifacts", IF reply = "ok" THEN work ELSE {},
                  EnrichedArtifactsCall)
      [] agent_type(a) = "analyst" ->
            IF reply = "ok"
            THEN Ended("Ok", summary_generated(seen), "Summary", {"markdown"}, SummaryCall)
            ELSE Ended("Llm", seen, "", {}, DefaultCall)

\* The results of process the driver logs as errors.
Errors == {"Llm", "Network", "Parse"}

----------------------------------------------------------------------------
(* Swarm::run *)

\* Mutant of the limit: max_runtime_secs = 0 is taken as a limit of 0 s.
timed_out_zero_limit(c, elapsed) == elapsed >= c.max_runtime_secs * 1000

\* `start.elapsed() >= max_runtime`; with max_runtime_secs = 0 the limit is
\* u64::MAX seconds, which no elapsed time reaches.
timed_out(c, elapsed) == c.max_runtime_secs > 0 /\ elapsed >= c.max_runtime_secs * 1000

\* Mutant of the await: the driver spawns process and goes on at once.
driver_after_spawn(pending) == "match"

\* `agent.process(&mut self.field).await`: where the driver stands after
\* the call, given whether process is suspended at an external call.
driver_after_call(pending) == IF pending THEN "await" ELSE "match"

\* Mutant of the match: an error of process is propagated with `?`.
on_result_propagate(res) == IF res \in Errors THEN "return" ELSE "continue"

\* The match on the result of process: every arm falls through to the next
\* worker.
on_result(res) == "continue"

\* Mutant of the scan: it matches the wrong payload variant.
summaries_wrong_variant(sigs) == Args(sigs, sense_kind(sigs, "ScrapedContent"))

\* The scan for Summary signals at the end of an iteration: their markdown.
summaries(sigs) == Args(sigs, sense_kind(sigs, "Summary"))

\* emit_log after worker a at roster position i emitted the payloads in
\* iteration t.
Logged(log, payloads, a, t, i) ==
    LET hs == {compute_origin_hash(p, a) : p \in payloads}
    IN  [h \in DOMAIN log \cup hs |-> IF h \in hs THEN [tick |-> t, idx |-> i] ELSE log[h]]

ghostVars == <<built, steps, emitted, external, fresh, last>>

InitSwarm ==
    /\ signals = <<>>
    /\ history = <<>>
    /\ current_time = 0
    /\ wall = 0
    /\ built = [h \in Hashes |-> 0]
    /\ steps = 0
    /\ emitted = [h \in Hashes |-> 0]
    /\ external = {}
    /\ fresh = {}
    /\ last = NoOp
    /\ config \in Configs
    /\ pc = "cli"
    /\ idx = 0
    /\ ticks = 0
    /\ start = 0
    /\ deadline = 0
    /\ processed = <<>>
    /\ active = {}
    /\ call = NoCall
    /\ result = "running"
    /\ outcome = <<>>
    /\ visits = <<>>
    /\ emit_log = <<>>
    /\ erred = {}
    /\ exit_code = -1
    /\ summary_file = ""
    /\ agents = <<>>
    /\ priority = [q \in {"query"} |-> CScale]
    /\ NoAgents
    /\ NoFilter
    /\ NoHelpers

Workers == {Roster(config)[i] : i \in DOMAIN Roster(config)}

\* run_query up to swarm.run(): without an API key it fails; with one it
\* builds the swarm (Swarm::new, init_agents), submits the query
\* (submit_query) and starts the run: the ticker and `start`.
RunQuery(has_key) ==
    /\ pc = "cli"
    /\ IF has_key
       THEN /\ \E ms \in SetupMs : wall' = wall + ms
            /\ signals' = emit_all(signals, {Payload("UserQuery", "query")}, UserQueryCall,
                                   "user", wall', 0)
            /\ agents' = Roster(config)
            /\ processed' = [a \in Workers |-> {}]
            /\ outcome' = [a \in Workers |-> ""]
            /\ start' = wall'
            /\ deadline' = wall'
            /\ pc' = "ticker"
            /\ UNCHANGED exit_code
       ELSE /\ exit_code' = 1
            /\ pc' = "exited"
            /\ UNCHANGED <<signals, wall, agents, processed, outcome, start, deadline>>
    /\ UNCHANGED <<agentVars, filterVars, helperVars>>
    /\ UNCHANGED <<history, current_time, ghostVars, config, idx, ticks, active, call,
                   result, visits, emit_log, erred, summary_file>>

\* `ticker.tick().await`: the first tick completes at once, each later one
\* a period after the one before, or at once when that instant has passed.
TickerTickWithin(n) ==
    /\ pc = "ticker"
    /\ ticks < n
    /\ wall' = Max(wall, deadline)
    /\ deadline' = deadline + config.tick_interval_ms
    /\ pc' = "timeout"
    /\ UNCHANGED <<agents, agentVars, filterVars, helperVars>>
    /\ UNCHANGED <<signals, history, current_time, ghostVars, config, idx, ticks, start,
                   processed, active, call, result, outcome, visits, emit_log, erred,
                   exit_code, summary_file>>

TickerTick == TickerTickWithin(MaxTicks)

\* The timeout check at the top of the loop: break and Ok(None)
CheckTimeout ==
    /\ pc = "timeout"
    /\ IF timed_out(config, wall - start)
       THEN result' = "None" /\ pc' = "returned"
       ELSE pc' = "tick" /\ UNCHANGED result
    /\ UNCHANGED <<agents, agentVars, filterVars, helperVars>>
    /\ UNCHANGED <<fieldVars, config, idx, ticks, start, deadline, processed, active, call,
                   outcome, visits, emit_log, erred, exit_code, summary_file>>

\* The ways a loop over the set S can begin: its first n elements, in order.
RECURSIVE Arrangements(_, _)
Arrangements(S, n) ==
    IF n <= 0 \/ S = {} THEN {<<>>}
    ELSE UNION {{<<x>> \o r : r \in Arrangements(S \ {x}, n - 1)} : x \in S}

\* `self.field.tick(self.tick_interval_ms as f64 / 1000.0)` and the start
\* of the loop over the agents.  The loop of tick over the HashMap meets the
\* expired signals in an order the code does not determine; the history
\* takes them while it is below max_history, so only the beginning of that
\* order tells two outcomes apart.
FieldTick ==
    LET now == tick_time(current_time, config.tick_interval_ms * 1000)
        refreshed == tick_refresh(signals, now)
        expired == tick_expired(refreshed, now)
    IN  /\ pc = "tick"
        /\ current_time' = now
        /\ signals' = Remove(refreshed, expired)
        /\ \E order \in Arrangements(expired, max_history - Len(history)) :
               history' = push_history(history, [i \in DOMAIN order |-> refreshed[order[i]]])
        /\ ticks' = ticks + 1
        /\ idx' = 1
        /\ visits' = <<>>
        /\ outcome' = [a \in Workers |-> ""]
        /\ pc' = "heartbeat"
        /\ UNCHANGED <<agents, agentVars, filterVars, helperVars>>
        /\ UNCHANGED <<wall, ghostVars, config, start, deadline, processed, active, call,
                       result, emit_log, erred, exit_code, summary_file>>

\* `agent.heartbeat(&mut self.field)`
Heartbeat ==
    LET a == agents[idx]
        p == Payload("Heartbeat", capacity(a, processed[a]))
    IN  /\ pc = "heartbeat"
        /\ signals' = emit_all(signals, {p}, HeartbeatCall, a, wall, ticks)
        /\ emit_log' = Logged(emit_log, {p}, a, ticks, idx)
        /\ visits' = Append(visits, <<a, "heartbeat">>)
        /\ pc' = "process"
        /\ UNCHANGED <<agents, agentVars, filterVars, helperVars>>
        /\ UNCHANGED <<history, current_time, wall, ghostVars, config, idx, ticks, start,
                       deadline, processed, active, call, result, outcome, erred,
                       exit_code, summary_file>>

\* `agent.process(&mut self.field).await`, up to the first external call of
\* process or to its end.  An external call may never return.
Process ==
    LET a == agents[idx]
        found == sensed(a, signals, current_time, processed[a])
    IN  /\ pc = "process"
        /\ \E work \in WorkChoices(a, found), hit \in BOOLEAN :
             LET r == begin(a, signals, processed[a], found, work, hit)
             IN  /\ processed' = [processed EXCEPT ![a] = r.seen]
                 /\ visits' = Append(visits, <<a, "process">>)
                 /\ pc' = driver_after_call(r.result = "Await")
                 /\ IF r.result = "Await"
                    THEN /\ \E never \in BOOLEAN :
                               call' = [agent |-> a, never |-> never, work |-> work,
                                        idx |-> idx, tick |-> ticks]
                         /\ active' = active \cup {a}
                         /\ UNCHANGED <<signals, outcome, emit_log>>
                    ELSE /\ signals' = emit_all(signals, r.emits, r.b, a, wall, ticks)
                         /\ emit_log' = Logged(emit_log, r.emits, a, ticks, idx)
                         /\ outcome' = [outcome EXCEPT ![a] = r.result]
                         /\ UNCHANGED <<call, active>>
        /\ UNCHANGED <<agents, agentVars, filterVars, helperVars>>
        /\ UNCHANGED <<history, current_time, wall, ghostVars, config, idx, ticks, start,
                       deadline, result, erred, exit_code, summary_file>>

\* The external call returns after ms and process runs to its end.
Complete(reply, ms) ==
    LET a == call.agent
        r == finish(a, processed[a], call.work, reply)
    IN  /\ call # NoCall
        /\ ~call.never
        /\ result = "running"
        /\ wall' = wall + ms
        /\ processed' = [processed EXCEPT ![a] = r.seen]
        /\ signals' = emit_all(signals, r.emits, r.b, a, wall + ms, call.tick)
        /\ emit_log' = Logged(emit_log, r.emits, a, call.tick, call.idx)
        /\ outcome' = [outcome EXCEPT ![a] = r.result]
        /\ active' = active \ {a}
        /\ call' = NoCall
        /\ pc' = IF pc = "await" THEN "match" ELSE pc
        /\ UNCHANGED <<agents, agentVars, filterVars, helperVars>>
        /\ UNCHANGED <<history, current_time, ghostVars, config, idx, ticks, start, deadline,
                       result, visits, erred, exit_code, summary_file>>

\* Time passes while a call that never returns is awaited.
Stall ==
    /\ call # NoCall
    /\ call.never
    /\ wall - start < StallCap
    /\ wall' = wall + StallMs
    /\ UNCHANGED <<signals, history, current_time, ghostVars, swarmVars, agentVars,
                   filterVars, helperVars>>

\* The match on the result of process, and the step of the loop over the
\* agents.
Match ==
    LET a == agents[idx]
    IN  /\ pc = "match"
        /\ erred' = IF outcome[a] \in Errors THEN erred \cup {ticks} ELSE erred
        /\ IF on_result(outcome[a]) = "continue"
           THEN /\ IF idx < Len(agents)
                   THEN idx' = idx + 1 /\ pc' = "heartbeat"
                   ELSE pc' = "scan" /\ UNCHANGED idx
                /\ UNCHANGED result
           ELSE /\ result' = "Err"
                /\ pc' = "returned"
                /\ UNCHANGED idx
        /\ UNCHANGED <<agents, agentVars, filterVars, helperVars>>
        /\ UNCHANGED <<fieldVars, config, ticks, start, deadline, processed, active, call,
                       outcome, visits, emit_log, exit_code, summary_file>>

\* The scan for a Summary after the loop over the agents: the first one the
\* map yields is returned.
Scan ==
    /\ pc = "scan"
    /\ IF summaries(signals) = {}
       THEN pc' = "ticker" /\ UNCHANGED result
       ELSE /\ \E markdown \in summaries(signals) : result' = markdown
            /\ pc' = "returned"
    /\ UNCHANGED <<agents, agentVars, filterVars, helperVars>>
    /\ UNCHANGED <<fieldVars, config, idx, ticks, start, deadline, processed, active, call,
                   outcome, visits, emit_log, erred, exit_code, summary_file>>

\* run_query after swarm.run(): a summary is written to the output file and
\* the command succeeds, unless the write fails; without a summary the
\* field stats are printed and the command returns Ok(()).
Report(write_ok) ==
    /\ pc = "returned"
    /\ IF result \in {"None", "Err"}
       THEN /\ exit_code' = IF result = "None" THEN 0 ELSE 1
            /\ UNCHANGED summary_file
       ELSE IF write_ok
            THEN summary_file' = result /\ exit_code' = 0
            ELSE exit_code' = 1 /\ UNCHANGED summary_file
    /\ pc' = "exited"
    /\ UNCHANGED <<agents, agentVars, filterVars, helperVars>>
    /\ UNCHANGED <<fieldVars, config, idx, ticks, start, deadline, processed, active, call,
                   result, outcome, visits, emit_log, erred>>

NextSwarm ==
    \/ \E has_key \in BOOLEAN : RunQuery(has_key)
    \/ TickerTick
    \/ CheckTimeout
    \/ FieldTick
    \/ Heartbeat
    \/ Process
    \/ \E reply \in Replies, ms \in CallMs : Complete(reply, ms)
    \/ Stall
    \/ Match
    \/ Scan
    \/ \E write_ok \in BOOLEAN : Report(write_ok)

SpecSwarm == InitSwarm /\ [][NextSwarm]_vars

----------------------------------------------------------------------------
(* Properties of the swarm *)

\* The hashes a step inserts in the field or changes there.
Touched == {h \in DOMAIN signals' : h \notin DOMAIN signals \/ signals'[h] # signals[h]}

\* C15: worker activations never overlap.  At most one activation is in
\* progress; an activation begins, and the heartbeat or process of a worker
\* is called, only when none is in progress; field.tick (which moves
\* current_time and the history) runs only when none is in progress; and
\* while one is in progress only its worker writes to the field.
C15_ActivationsNeverOverlap ==
    [][ /\ Cardinality(active') <= 1
        /\ (active' \ active # {}) => active = {}
        /\ (visits' # visits) => active = {}
        /\ (current_time' # current_time \/ history' # history) => active = {}
        /\ (active # {}) => \A h \in Touched : h[2] \in active ]_vars

\* A worker is suspended at an external call after an earlier worker's
\* call returned in the same run.
C15_Witness ==
    /\ pc = "await"
    /\ active = {Roster(config)[idx]}
    /\ idx > 1
    /\ \E a \in Workers : outcome[a] = "Ok" /\ a # Roster(config)[idx]

\* The calls of one iteration in roster order: heartbeat then process of
\* each worker.
ExpectedVisits ==
    [k \in 1..(2 * Len(Roster(config))) |->
        <<Roster(config)[(k + 1) \div 2], IF k % 2 = 1 THEN "heartbeat" ELSE "process">>]

\* The driver is inside the loop over the agents.
InLoop == pc \in {"heartbeat", "process", "await", "match", "scan"}

\* C16 (as claimed): in every iteration the workers are visited in roster
\* order, heartbeat then process; a signal emitted in this iteration is live
\* while the later workers of the iteration run; and when the process of a
\* worker is called, every signal emitted in the iteration before is live.
C16_Claimed_RosterOrderAndVisibility ==
    InLoop =>
        /\ Len(visits) <= Len(ExpectedVisits)
        /\ visits = SubSeq(ExpectedVisits, 1, Len(visits))
        /\ \A h \in DOMAIN emit_log : emit_log[h].tick = ticks => h \in Live
        /\ pc = "process" =>
               \A h \in DOMAIN emit_log : emit_log[h].tick = ticks - 1 => h \in Live

\* The markdown of the Summary signals that are live.
LiveSummaries == {signals[h].payload.arg : h \in {x \in Live : x[1].kind = "Summary"}}

\* C17: a Summary is live only from its emission by the last worker of an
\* iteration to the scan that ends this iteration, and that scan makes run
\* return the markdown of a live Summary, in the iteration that emitted it;
\* run never returns None while a Summary is live.
C17_SummaryReturned ==
    /\ (LiveSummaries # {} /\ pc \notin {"returned", "exited"}) =>
           (pc \in {"match", "scan"} /\ idx = Len(Roster(config)))
    /\ (pc \in {"returned", "exited"} /\ LiveSummaries # {}) =>
           /\ result \in LiveSummaries
           /\ \E h \in Live : h[1].kind = "Summary" /\ emit_log[h].tick = ticks
    /\ result \notin {"running", "None", "Err"} =>
           result \in LiveSummaries

\* run returned the summary in a later iteration than the first.
C17_Witness == pc = "returned" /\ result \in LiveSummaries /\ ticks >= 2

\* The steps of Swarm::run itself (time passing is not one of them).
RunStep ==
    \/ TickerTick
    \/ CheckTimeout
    \/ FieldTick
    \/ Heartbeat
    \/ Process
    \/ \E reply \in Replies, ms \in CallMs : Complete(reply, ms)
    \/ Match
    \/ Scan

\* run has not returned and has no step left to take, in a run that was
\* not cut off by MaxTicks.
Stuck ==
    /\ pc \notin {"cli", "returned", "exited"}
    /\ ~(pc = "ticker" /\ ticks >= MaxTicks)
    /\ ~ENABLED RunStep

\* C18 (as claimed): with max_runtime > 0, once the elapsed time exceeds
\* max_runtime the run has returned or can still take a step towards
\* returning, also when an external call never returns.
C18_Claimed_TimeoutEndsRun ==
    (config.max_runtime_secs > 0 /\ wall - start > config.max_runtime_secs * 1000) => ~Stuck

\* C19 (as claimed): when the run ends with no summary the command writes
\* no summary file and exits with a non-zero code; it exits with 0 only
\* when a summary was generated and written.
C19_Claimed_ExitCodes ==
    pc = "exited" =>
        /\ result = "None" => (exit_code # 0 /\ summary_file = "")
        /\ exit_code = 0 => (result \in LiveSummaries /\ summary_file = result)

\* C20: an error returned by a worker's process does not stop the driver.
\* The step after the error goes on to the heartbeat of the next worker, or
\* to the scan after the last one; an iteration in which a process erred
\* still calls heartbeat and process of every worker, and unless it ends
\* with a Summary the loop goes back to the ticker for the next iteration.
C20_ErrorsDoNotStopDriver ==
    [][ /\ (pc = "match" /\ outcome[Roster(config)[idx]] \in Errors) =>
               IF idx < Len(Roster(config))
               THEN pc' = "heartbeat" /\ idx' = idx + 1
               ELSE pc' = "scan"
        /\ (pc = "scan" /\ ticks \in erred) =>
               /\ visits = ExpectedVisits
               /\ LiveSummaries = {} => pc' = "ticker" ]_vars

\* The second iteration goes on past a worker whose process erred, after a
\* first iteration in which a process erred too.
C20_Witness ==
    /\ pc = "heartbeat"
    /\ idx = 2
    /\ ticks = 2
    /\ erred = {1, 2}
    /\ outcome[Roster(config)[1]] \in Errors


----------------------------------------------------------------------------
(***************************************************************************)
(* FilterAgent (robin-agents filter.rs): the parse of the LLM's response   *)
(* in filter_results and the loop of process that emits one FilteredResult *)
(* per selected index.  A text is a sequence of characters; a relevance is *)
(* in hundredths.                                                          *)
(***************************************************************************)

(* Bound of the exploration: the length of the LLM's response text *)

MaxLen == 4

(* Inputs *)

\* The characters a response is made of: digits and a separator.
Chars == {"0", "1", "2", "3", ","}

Responses == UNION {[1..n -> Chars] : n \in 0..MaxLen}

\* The urls of the raw results process found, in the order it indexes them.
\* process returns NoWork when there is none.
Candidates == {<<"u1">>, <<"u1", "u2">>, <<"u1", "u2", "u3">>}

\* char::is_ascii_digit
is_ascii_digit(c) == c \in {"0", "1", "2", "3", "4", "5", "6", "7", "8", "9"}

digit_value(c) ==
    CASE c = "0" -> 0 [] c = "1" -> 1 [] c = "2" -> 2 [] c = "3" -> 3 [] c = "4" -> 4
      [] c = "5" -> 5 [] c = "6" -> 6 [] c = "7" -> 7 [] c = "8" -> 8 [] c = "9" -> 9

\* `response.split(|c| !c.is_ascii_digit())`: the pieces between the
\* characters that are no digits, the empty ones included.
RECURSIVE split(_, _)
split(text, piece) ==
    IF text = <<>> THEN <<piece>>
    ELSE IF is_ascii_digit(Head(text))
         THEN split(Tail(text), Append(piece, Head(text)))
         ELSE <<piece>> \o split(Tail(text), <<>>)

\* `s.parse::<usize>().ok()`: the number the digits write, None (-1) for
\* the empty piece.  A piece of MaxLen digits is far below usize::MAX.
RECURSIVE parse(_, _)
parse(piece, acc) ==
    IF piece = <<>> THEN acc
    ELSE parse(Tail(piece), 10 * acc + digit_value(Head(piece)))

parse_ok(piece) == IF piece = <<>> THEN -1 ELSE parse(piece, 0)

\* `.take(n)` of an iterator
take(seq, n) == SubSeq(seq, 1, Min(n, Len(seq)))

\* FilterAgent::new: batch_size
batch_size == 50

\* The number of indices filter_results keeps
top_n == 20

\* `.filter(|&idx| idx > 0 && idx <= results.len())`
in_range(i, len) == i > 0 /\ i <= len

\* FilterAgent::filter_results after the LLM answered: the indices parsed
\* from the response.
filter_results(text, results) ==
    LET pieces == split(text, <<>>)
        numbers == [k \in DOMAIN pieces |-> parse_ok(pieces[k])]
        parsed == SelectSeq(numbers, LAMBDA i : i # -1)
        kept == SelectSeq(parsed, LAMBDA i : in_range(i, Len(results)))
    IN  take(kept, top_n)

\* `1.0 - (rank as f64 * 0.03)`, in hundredths
relevance(rank) == 100 - 3 * rank

\* The loop of process over the selected indices: the FilteredResult
\* payload built at each rank whose index is found in the indexed list.
filtered_payloads(selected, results) ==
    LET found == SelectSeq([k \in DOMAIN selected |-> [rank |-> k - 1, idx |-> selected[k]]],
                           LAMBDA e : e.idx \in DOMAIN results)
    IN  [k \in DOMAIN found |->
            [url |-> results[found[k].idx], relevance |-> relevance(found[k].rank),
             reason |-> found[k].rank + 1, index |-> found[k].idx]]

InitFilter ==
    /\ NewField
    /\ Idle("indexed")
    /\ priority = <<>>
    /\ NoAgents
    /\ response = <<>>
    /\ indexed \in {take(c, batch_size) : c \in Candidates}
    /\ selected_indices = <<>>
    /\ filtered = <<>>
    /\ NoHelpers

\* `self.backend.generate(&system, &results_str).await` answers with a text.
Generate(text) ==
    /\ pc = "indexed"
    /\ response' = text
    /\ pc' = "answered"
    /\ UNCHANGED <<fieldVars, config, idx, ticks, start, deadline, processed, active, call,
                   result, outcome, visits, emit_log, erred, exit_code, summary_file,
                   agents, priority, agentVars, indexed, selected_indices, filtered,
                   helperVars>>

\* The rest of filter_results: the parse of the response.
FilterResults ==
    /\ pc = "answered"
    /\ selected_indices' = filter_results(response, indexed)
    /\ pc' = "selected"
    /\ UNCHANGED <<fieldVars, config, idx, ticks, start, deadline, processed, active, call,
                   result, outcome, visits, emit_log, erred, exit_code, summary_file,
                   agents, priority, agentVars, response, indexed, filtered, helperVars>>

\* The loop of process over the selected indices.
EmitFiltered ==
    /\ pc = "selected"
    /\ filtered' = filtered_payloads(selected_indices, indexed)
    /\ pc' = "emitted"
    /\ UNCHANGED <<fieldVars, config, idx, ticks, start, deadline, processed, active, call,
                   result, outcome, visits, emit_log, erred, exit_code, summary_file,
                   agents, priority, agentVars, response, indexed, selected_indices,
                   helperVars>>

NextFilter ==
    \/ \E text \in Responses : Generate(text)
    \/ FilterResults
    \/ EmitFiltered

SpecFilter == InitFilter /\ [][NextFilter]_vars

(* Properties of the filter *)

\* The indices a response writes that are in 1..n, in the order they appear.
Written ==
    LET pieces == split(response, <<>>)
        numbers == [k \in DOMAIN pieces |-> parse_ok(pieces[k])]
    IN  SelectSeq(numbers, LAMBDA i : i \in 1..Len(indexed))

\* C29 (as claimed): for every response text the selected index list holds
\* only indices in 1..n, holds no index twice, has at most 20 entries and
\* keeps the order of first appearance, and exactly one FilteredResult is
\* emitted per selected index, with relevance 1.0 - rank * 0.03.
C29_Claimed_SelectedIndices ==
    pc = "emitted" =>
        /\ \A k \in DOMAIN selected_indices : selected_indices[k] \in 1..Len(indexed)
        /\ NoDuplicates(selected_indices)
        /\ Len(selected_indices) <= 20
        /\ \A j, k \in DOMAIN selected_indices :
               j < k => \E m, n \in DOMAIN Written :
                            /\ m < n
                            /\ Written[m] = selected_indices[j]
                            /\ Written[n] = selected_indices[k]
                            /\ \A l \in 1..(m - 1) : Written[l] # Written[m]
                            /\ \A l \in 1..(n - 1) : Written[l] # Written[n]
        /\ \A i \in {selected_indices[k] : k \in DOMAIN selected_indices} :
               Cardinality({k \in DOMAIN filtered : filtered[k].index = i}) = 1
        /\ \A k \in DOMAIN filtered : filtered[k].relevance = 100 - 3 * (k - 1)


----------------------------------------------------------------------------
(***************************************************************************)
(* One worker driven directly.  A caller holds a field and one worker and  *)
(* calls Field::tick, heartbeat and process in any order, as the tests of  *)
(* the workers do; the field holds what the workers upstream emitted.      *)
(* Here the external calls of one activation are followed one by one:      *)
(* the refiner, the crawler, the scraper and the enricher make one call    *)
(* per input, the filter and the analyst one call for all their inputs.    *)
(* `steps` counts the external calls made, `ticks` the calls of tick,      *)
(* `visits` holds the calls of heartbeat; `activation` describes the       *)
(* activation begun last until the next tick or heartbeat.                 *)
(***************************************************************************)

(* Bounds of the exploration *)

\* External calls followed in one run.
MaxCalls == 4

\* Calls of Field::tick followed in one run.
MaxDirectTicks == 2

\* Calls of heartbeat followed in one run.
MaxHeartbeats == 1

(* Inputs *)

Queries == {"q1", "q2"}

\* The priority of a query: 0.0 or 1.0.
Priorities == {0, CScale}

\* f64 arguments of Field::tick, in microseconds: 0.5 s and 30 s.  After
\* 30 s a signal of the default decay is below the sensing threshold and
\* not yet expired; after 60 s it is expired.
DirectDt == {500000, 30000000}

DirectWorkers ==
    {"refiner-1", "crawler-1", "filter-1", "scraper-1", "extractor-1", "enricher-1",
     "analyst-1"}

\* The payload variant a worker works on, how the worker upstream builds it
\* and who that worker can be.
input_kind(a) ==
    CASE agent_type(a) = "refiner" -> "UserQuery"
      [] agent_type(a) = "crawler" -> "RefinedQuery"
      [] agent_type(a) = "filter" -> "RawResult"
      [] agent_type(a) = "scraper" -> "FilteredResult"
      [] agent_type(a) = "extractor" -> "ScrapedContent"
      [] agent_type(a) = "enricher" -> "ExtractedArtifacts"
      [] agent_type(a) = "analyst" -> "ScrapedContent"

input_call(a) ==
    CASE agent_type(a) = "filter" -> RawResultCall
      [] agent_type(a) = "scraper" -> FilteredResultCall
      [] agent_type(a) = "extractor" -> ScrapedContentCall
      [] agent_type(a) = "enricher" -> ExtractedArtifactsCall
      [] agent_type(a) = "analyst" -> ScrapedContentCall
      [] OTHER -> UserQueryCall

input_origins(a) ==
    CASE agent_type(a) = "filter" -> {"crawler-1"}
      [] agent_type(a) = "scraper" -> {"filter-1"}
      [] agent_type(a) = "extractor" -> {"scraper-1"}
      [] agent_type(a) = "enricher" -> {"extractor-1"}
      [] agent_type(a) = "analyst" -> {"scraper-1", "scraper-2"}
      [] OTHER -> {"user"}

\* What the inputs of a worker can carry: a url, and for the scraper the
\* url u1 selected at two ranks.
input_args(a) == IF agent_type(a) = "scraper" THEN Urls \cup {"u1#2"} ELSE Urls

\* What the field holds when the caller starts: the queries submitted (for
\* the refiner) or refined (for the others), each with its priority, and
\* the inputs of the worker, each a url and the worker that emitted it.
Scenarios(a) ==
    IF agent_type(a) \in {"refiner", "crawler"}
    THEN {[queries |-> qs, inputs |-> {}] :
             qs \in UNION {[d -> Priorities] : d \in (SUBSET Queries) \ {{}}}}
    ELSE {[queries |-> qs, inputs |-> xs] :
             qs \in IF agent_type(a) = "filter"
                    THEN {<<>>, [q \in {"q1"} |-> CScale]}
                    ELSE {[q \in {"q1"} |-> CScale]},
             xs \in SUBSET {x \in input_args(a) \X input_origins(a) :
                               x[2] # "scraper-2" \/ x[1] = "u1"}}

\* The signals of the queries: built and emitted one by one.
RECURSIVE emit_queries(_, _, _)
emit_queries(sigs, qs, refined) ==
    IF qs = {} THEN sigs
    ELSE LET q == CHOOSE x \in qs : TRUE
             signal == IF refined
                       THEN build(RefinedQueryCall(q), Payload("RefinedQuery", q),
                                  "refiner-1", 0, <<Payload("RefinedQuery", q), "refiner-1", 0>>)
                       ELSE build(UserQueryCall, Payload("UserQuery", q), "user", 0,
                                  <<Payload("UserQuery", q), "user", 0>>)
         IN  emit_queries(emit(sigs, signal), qs \ {q}, refined)

\* The signals of the inputs: built and emitted one by one.
RECURSIVE emit_inputs(_, _, _, _)
emit_inputs(sigs, xs, kind, b) ==
    IF xs = {} THEN sigs
    ELSE LET x == CHOOSE y \in xs : TRUE
             p == Payload(kind, x[1])
         IN  emit_inputs(emit(sigs, build(b, p, x[2], 0, <<p, x[2], 0>>)), xs \ {x}, kind, b)

\* What an external call of the worker can answer; a page the scraper
\* fetched can have no text.
RepliesOf(a) == IF agent_type(a) = "scraper" THEN Replies \cup {"empty"} ELSE Replies

\* The inputs the next external call of an activation covers: one of the
\* remaining inputs, or all of them for the filter and the analyst.
NextItems(a, rest) ==
    IF agent_type(a) \in {"filter", "analyst"} THEN {rest} ELSE {{x} : x \in rest}

\* Mutant of the mark: nothing is marked before the call.
mark_on_success(a, seen, item) == seen

\* The local set as the worker leaves it right before the external call for
\* an input: the crawler pushes the query, the scraper and the enricher
\* insert the url or artifact, before they await the call.
mark_before(a, seen, item) ==
    IF agent_type(a) \in {"crawler", "scraper", "enricher"}
    THEN seen \cup {key_of(x) : x \in item}
    ELSE seen

Summaries(payloads) == {p \in payloads : p.kind = "Summary"}

\* `source_count: content.len()`: the number of ScrapedContent signals the
\* analyst collected.
source_count(sigs) == Cardinality(sense_kind(sigs, "ScrapedContent"))

InitAgents ==
    /\ \E a \in DirectWorkers : \E sc \in Scenarios(a) :
        /\ agents = <<a>>
        /\ priority = sc.queries
        /\ signals = emit_inputs(emit_queries(<<>>, DOMAIN sc.queries,
                                              agent_type(a) # "refiner"),
                                 sc.inputs, input_kind(a), input_call(a))
        /\ processed = [w \in {a} |-> {}]
    /\ history = <<>>
    /\ current_time = 0
    /\ wall = 0
    /\ built = [h \in Hashes |-> 0]
    /\ steps = 0
    /\ emitted = [h \in Hashes |-> 0]
    /\ external = {}
    /\ fresh = {}
    /\ last = NoOp
    /\ config = [tick_interval_ms |-> 0, max_runtime_secs |-> 0, enable_enrichment |-> TRUE]
    /\ pc = "direct"
    /\ idx = 0
    /\ ticks = 0
    /\ start = 0
    /\ deadline = 0
    /\ active = {}
    /\ call = NoCall
    /\ result = "running"
    /\ outcome = <<>>
    /\ visits = <<>>
    /\ emit_log = <<>>
    /\ erred = {}
    /\ exit_code = -1
    /\ summary_file = ""
    /\ activation = NoActivation
    /\ summary_count = 0
    /\ NoFilter
    /\ NoHelpers

directFrame == <<history, current_time, wall, built, emitted, external, fresh, config, pc,
                 idx, start, deadline, active, call, result, outcome, emit_log, erred,
                 exit_code, summary_file, agents, priority, filterVars, helperVars>>

\* `field.tick(dt)` by the caller, between two activations.
DirectTick(dt_us) ==
    LET now == tick_time(current_time, dt_us)
        refreshed == tick_refresh(signals, now)
        expired == tick_expired(refreshed, now)
    IN  /\ pc = "direct"
        /\ ~activation.open
        /\ ticks < MaxDirectTicks
        /\ current_time' = now
        /\ wall' = wall + dt_us \div 1000
        /\ signals' = Remove(refreshed, expired)
        /\ \E order \in Arrangements(expired, max_history - Len(history)) :
               history' = push_history(history, [i \in DOMAIN order |-> refreshed[order[i]]])
        /\ ticks' = ticks + 1
        /\ activation' = NoActivation
        /\ last' = [NoOp EXCEPT !.kind = "tick", !.dt = dt_us]
        /\ UNCHANGED <<built, steps, emitted, external, fresh, config, pc, idx, start,
                       deadline, processed, active, call, result, outcome, visits, emit_log,
                       erred, exit_code, summary_file, agents, priority, summary_count,
                       filterVars, helperVars>>

\* `agent.heartbeat(&mut field)` by the caller
DirectHeartbeat(a) ==
    LET p == Payload("Heartbeat", capacity(a, processed[a]))
    IN  /\ agents = <<a>>
        /\ ~activation.open
        /\ Len(visits) < MaxHeartbeats
        /\ signals' = emit_all(signals, {p}, HeartbeatCall, a, wall, Len(visits))
        /\ visits' = Append(visits, <<a, "heartbeat">>)
        /\ activation' = NoActivation
        /\ last' = [NoOp EXCEPT !.kind = "heartbeat", !.hash = compute_origin_hash(p, a),
                                !.agent = a]
        /\ UNCHANGED <<steps, ticks, processed, summary_count, directFrame>>

\* `agent.process(&mut field).await` by the caller, up to the first external
\* call of process or to its end.
DirectProcess(a) ==
    LET found == sensed(a, signals, current_time, processed[a])
    IN  /\ agents = <<a>>
        /\ ~activation.open
        /\ \E work \in WorkChoices(a, found), hit \in BOOLEAN :
             LET r == begin(a, signals, processed[a], found, work, hit)
                 began == [NoActivation EXCEPT !.agent = a, !.before = signals,
                                               !.seen = processed[a]]
             IN  IF r.result = "Await"
                 THEN /\ steps + Cardinality(NextItems(a, work)) <= MaxCalls
                      /\ \E item \in NextItems(a, work) :
                           /\ processed' = [processed EXCEPT ![a] = mark_before(a, @, item)]
                           /\ activation' = [began EXCEPT !.open = TRUE, !.item = item,
                                                          !.rest = work \ item,
                                                          !.attempted = item, !.calls = 1]
                      /\ steps' = steps + 1
                      /\ UNCHANGED <<signals, summary_count>>
                 ELSE /\ signals' = emit_all(signals, r.emits, r.b, a, wall, steps)
                      /\ processed' = [processed EXCEPT ![a] = r.seen]
                      /\ activation' = [began EXCEPT
                                           !.attempted = IF r.result = "Ok" THEN work ELSE {},
                                           !.emits = r.emits, !.result = r.result]
                      /\ summary_count' = summary_count + Cardinality(Summaries(r.emits))
                      /\ UNCHANGED steps
        /\ UNCHANGED <<last, ticks, visits, directFrame>>

\* The external call of the open activation returns; process goes on to its
\* next external call or to its end.
DirectReturn(reply) ==
    LET a == activation.agent
        r == finish(a, processed[a], activation.item, reply)
        after == [activation EXCEPT
                     !.failed = IF reply = "fail" THEN @ \cup activation.item ELSE @,
                     !.empty = IF reply = "empty" THEN @ \cup activation.item ELSE @,
                     !.emits = @ \cup r.emits,
                     !.source_count = IF Summaries(r.emits) # {}
                                      THEN source_count(activation.before) ELSE @]
    IN  /\ activation.open
        /\ reply \in RepliesOf(a)
        /\ signals' = emit_all(signals, r.emits, r.b, a, wall, steps)
        /\ summary_count' = summary_count + Cardinality(Summaries(r.emits))
        /\ IF r.result \in Errors \/ activation.rest = {}
           THEN /\ processed' = [processed EXCEPT ![a] = r.seen]
                /\ activation' = [after EXCEPT !.open = FALSE, !.result = r.result]
                /\ UNCHANGED steps
           ELSE /\ \E item \in NextItems(a, activation.rest) :
                     /\ processed' = [processed EXCEPT ![a] = mark_before(a, r.seen, item)]
                     /\ activation' = [after EXCEPT !.item = item, !.rest = @ \ item,
                                                    !.attempted = @ \cup item,
                                                    !.calls = @ + 1]
                /\ steps' = steps + 1
        /\ UNCHANGED <<last, ticks, visits, directFrame>>

NextAgents ==
    \/ \E dt \in DirectDt : DirectTick(dt)
    \/ \E a \in DirectWorkers : DirectHeartbeat(a)
    \/ \E a \in DirectWorkers : DirectProcess(a)
    \/ \E reply \in Replies \cup {"empty"} : DirectReturn(reply)

SpecAgents == InitAgents /\ [][NextAgents]_vars


(* Properties of the workers *)

\* The worker the caller holds.
Worker == agents[1]

\* The activation begun last has ended.
Closed == activation.agent # "" /\ ~activation.open

\* C21 (as claimed): whenever a worker's process returns an Llm, Network or
\* Parse failure, the activation has emitted nothing: the live signals and
\* their reinforcement state are as they were before the activation, for
\* every worker and every number of pending inputs.
C21_Claimed_ErrorEmitsNothing ==
    (Closed /\ activation.result \in Errors) =>
        /\ activation.emits = {}
        /\ signals = activation.before


\* C22 (as claimed): for every worker other than the scraper, an input whose
\* external call failed is not added to the worker's idempotency set, so
\* the worker takes the same input again while its signal is still sensed.
C22_Claimed_FailedItemsRetried ==
    (Closed /\ agent_type(Worker) # "scraper") =>
        /\ activation.failed \cap processed[Worker] = {}
        /\ activation.failed \subseteq sensed(Worker, signals, current_time, processed[Worker])


\* The FilteredResult signals the scraper's sense returns now: those at or
\* above the sensing threshold whose url is not in its scraped set.
ScraperSenses ==
    {h \in Live : /\ h[1].kind = "FilteredResult"
                  /\ effective_at_least(signals[h], current_time, 1)
                  /\ key_of(h[1].arg) \notin processed[Worker]}

\* C23: every url a scraper attempts in an activation is in its scraped set
\* from the attempt on, whether the fetch succeeds, fails or returns empty
\* text; the scraped set never loses a url, and sense returns no
\* FilteredResult of a url in it.
C23_ScraperMarksAttempts ==
    /\ [](agent_type(Worker) = "scraper" =>
            /\ \A x \in activation.attempted : key_of(x) \in processed[Worker]
            /\ \A h \in ScraperSenses : \A x \in activation.attempted :
                   key_of(h[1].arg) # key_of(x))
    /\ [][agent_type(Worker) = "scraper" =>
            processed[Worker] \subseteq processed'[Worker]]_vars

\* A scraper activation ended in which one fetch gave text, one failed and
\* one returned empty text, while the three FilteredResult signals are live.
C23_Witness ==
    /\ Closed
    /\ agent_type(Worker) = "scraper"
    /\ activation.emits # {}
    /\ activation.failed # {}
    /\ activation.empty # {}
    /\ \A u \in activation.attempted :
           \E h \in Live : h[1] = Payload("FilteredResult", u)
    /\ ScraperSenses = {}


\* The ScrapedContent signals in a map of signals.
Contents(sigs) == {h \in DOMAIN sigs : h[1].kind = "ScrapedContent"}

\* C24: whenever fewer than 3 ScrapedContent signals are live and no
\* summary has been generated, Analyst.process returns NotReady, makes no
\* LLM call, emits nothing and leaves summary_generated false.
C24_AnalystWaits ==
    (/\ activation.agent = Worker
     /\ agent_type(Worker) = "analyst"
     /\ "summary" \notin activation.seen
     /\ Cardinality(Contents(activation.before)) < 3) =>
        /\ ~activation.open
        /\ activation.result = "NotReady"
        /\ activation.calls = 0
        /\ activation.emits = {}
        /\ signals = activation.before
        /\ "summary" \notin processed[Worker]
        /\ summary_count = 0

\* The analyst's process ended over a field with two ScrapedContent signals.
C24_Witness ==
    /\ Closed
    /\ agent_type(Worker) = "analyst"
    /\ activation.result = "NotReady"
    /\ Cardinality(Contents(activation.before)) = 2


\* C25: over any run an analyst emits at most one Summary signal: once it
\* has emitted one, every later process call returns NoWork without calling
\* the LLM or emitting, and its heartbeat reports capacity 0.0.
C25_OneSummary ==
    /\ [](agent_type(Worker) = "analyst" =>
            /\ summary_count <= 1
            /\ (summary_count = 1) => "summary" \in processed[Worker]
            /\ (activation.agent = Worker /\ "summary" \in activation.seen) =>
                   /\ ~activation.open
                   /\ activation.result = "NoWork"
                   /\ activation.calls = 0
                   /\ activation.emits = {}
                   /\ signals = activation.before)
    /\ [][(agent_type(Worker) = "analyst" /\ summary_count = 1 /\ visits' # visits) =>
              /\ last'.hash = <<Payload("Heartbeat", "0.0"), Worker>>
              /\ last'.hash \in DOMAIN signals']_vars

\* After its Summary the analyst reported its capacity and was asked to
\* process again, over a field that still holds three ScrapedContent signals.
C25_Witness ==
    /\ agent_type(Worker) = "analyst"
    /\ summary_count = 1
    /\ last.kind = "heartbeat"
    /\ last.hash = <<Payload("Heartbeat", "0.0"), Worker>>
    /\ Closed
    /\ activation.result = "NoWork"
    /\ Cardinality(Contents(signals)) >= 3


\* The inputs the activation that ended processed: those it took whose
\* external call, if they needed one, succeeded.
Done == activation.attempted \ (activation.failed \cup activation.empty)

\* C28 (as claimed): re-invoking a worker's process a second time in the
\* same tick is safe: the second invocation makes no external call and no
\* emission for an input the first invocation already processed.
C28_Claimed_ReinvocationSafe ==
    Closed =>
        LET found == sensed(Worker, signals, current_time, processed[Worker])
        IN  \A work \in WorkChoices(Worker, found), hit \in BOOLEAN :
                LET r == begin(Worker, signals, processed[Worker], found, work, hit)
                IN  (r.result = "Await" \/ r.emits # {}) => work \cap Done = {}


\* C30 (as claimed): a UserQuery emitted by submit_query has TTL 300 s and
\* lives for 5 minutes: it is still live in the field after every tick at
\* which the field time is less than 300 s past its creation.  The queries
\* were submitted at time 0.
C30_Claimed_UserQueryLives ==
    (agent_type(Worker) = "refiner" /\ current_time < 300000) =>
        \A q \in DOMAIN priority :
            /\ <<Payload("UserQuery", q), "user">> \in Live
            /\ signals[<<Payload("UserQuery", q), "user">>].ttl = 300000


----------------------------------------------------------------------------
(***************************************************************************)
(* The swarm run as a library, with its workers in any of a set of orders. *)
(* A caller builds the swarm, submits one query with a priority and calls  *)
(* run; every external call that returns succeeds.  Swarm::init_agents     *)
(* pushes the workers in one order; here Swarm.agents is that order, its   *)
(* reverse, or a rotation of one of them.                                  *)
(***************************************************************************)

(* Bound of the exploration: the loop iterations of Swarm::run followed *)

MaxOrderTicks == 6

(* Inputs *)

\* The command's tick interval, with no runtime limit or one of 6 s.
OrderConfigs == {SwarmConfig(500, 0, FALSE), SwarmConfig(500, 6, FALSE)}

\* The query submitted and its priority: 0.0, 0.5 or 1.0.
OrderQueries == {"query"}
OrderPriorities == {0, CScale \div 2, CScale}

Rotate(seq, k) == [i \in 1..Len(seq) |-> seq[((i + k - 1) % Len(seq)) + 1]]

Reverse(seq) == [i \in 1..Len(seq) |-> seq[Len(seq) + 1 - i]]

RosterOrders(c) ==
    {Rotate(seq, k) : seq \in {Roster(c), Reverse(Roster(c))}, k \in 0..(Len(Roster(c)) - 1)}

\* Swarm::new, with the workers in one of the orders.
InitOrder ==
    /\ NewField
    /\ config \in OrderConfigs
    /\ pc = "library"
    /\ idx = 0
    /\ ticks = 0
    /\ start = 0
    /\ deadline = 0
    /\ processed = <<>>
    /\ active = {}
    /\ call = NoCall
    /\ result = "running"
    /\ outcome = <<>>
    /\ visits = <<>>
    /\ emit_log = <<>>
    /\ erred = {}
    /\ exit_code = -1
    /\ summary_file = ""
    /\ agents \in RosterOrders(config)
    /\ priority \in UNION {[{q} -> OrderPriorities] : q \in OrderQueries}
    /\ NoAgents
    /\ NoFilter
    /\ NoHelpers

\* `swarm.submit_query(query, priority)` and the start of `swarm.run()`: the
\* ticker and `start`.
StartRun ==
    /\ pc = "library"
    /\ \E ms \in SetupMs : wall' = wall + ms
    /\ signals' = emit_all(signals, {Payload("UserQuery", q) : q \in DOMAIN priority},
                           UserQueryCall, "user", wall', 0)
    /\ processed' = [a \in Workers |-> {}]
    /\ outcome' = [a \in Workers |-> ""]
    /\ start' = wall'
    /\ deadline' = wall'
    /\ pc' = "ticker"
    /\ UNCHANGED <<history, current_time, ghostVars, config, idx, ticks, active, call,
                   result, visits, emit_log, erred, exit_code, summary_file, agents,
                   agentVars, filterVars, helperVars>>

NextOrder ==
    \/ StartRun
    \/ TickerTickWithin(MaxOrderTicks)
    \/ CheckTimeout
    \/ FieldTick
    \/ Heartbeat
    \/ Process
    \/ \E ms \in CallMs : Complete("ok", ms)
    \/ Stall
    \/ Match
    \/ Scan

SpecOrder == InitOrder /\ [][NextOrder]_vars

(* Properties of the run in any order *)

\* The query submitted.
Query == CHOOSE q \in DOMAIN priority : TRUE

\* The driver is between two iterations, or the run has returned.
BetweenIterations == pc \in {"scan", "ticker", "timeout", "tick", "returned"}


\* The RefinedQuery signal of the query submitted.
Refined == <<Payload("RefinedQuery", Query), "refiner-1">>

\* C26: after submit_query(q, priority) with an LLM that answers, within at
\* most 5 driver ticks a RefinedQuery whose original is q exists and is
\* live in the field, for every priority in [0, 1]: it is there from the
\* end of the first iteration to the fifth, wherever the refiner stands in
\* the roster.
C26_RefinedWithinFiveTicks ==
    ((ticks = 1 /\ BetweenIterations) \/ (ticks >= 2 /\ ticks <= 5)) =>
        /\ Refined \in Live
        /\ signals[Refined].confidence = priority[Query]
        /\ ~(\/ current_time - signals[Refined].created_at >= 120000
             \/ compute_intensity(signals[Refined], current_time) * 100 < IScale)

\* The first iteration ended with the refiner last in the roster and a
\* query of priority 0.0: its RefinedQuery is live.
C26_Witness ==
    /\ ticks = 1
    /\ pc = "scan"
    /\ priority[Query] = 0
    /\ agents[Len(agents)] = "refiner-1"
    /\ Refined \in Live

\* C27 (as claimed): completion does not depend on worker ordering: for
\* every order of the roster, if every external call succeeds and at least
\* 3 urls are crawled, selected and scraped with non-empty text, the run
\* returns a Summary.
C27_Claimed_AnyOrderCompletes ==
    (pc = "returned" /\ Cardinality(Contents(signals)) >= 3) => result \in LiveSummaries

\* C27 (amended): with no runtime limit, for every order of the roster, if
\* every external call succeeds and the refined query is sensed, the run
\* returns a Summary, and does so within 5 iterations: a worker that finds
\* nothing in one tick does its work in a later one.
C27_AnyOrderCompletesUnlimited ==
    (config.max_runtime_secs = 0 /\ priority[Query] * 10 >= CScale) =>
        /\ ~(pc = "ticker" /\ ticks >= 5)
        /\ pc = "returned" =>
               /\ result \in LiveSummaries
               /\ Cardinality(Contents(signals)) >= 3

\* A run with the roster reversed returned a Summary in its fifth iteration.
C27_Witness ==
    /\ pc = "returned"
    /\ config.max_runtime_secs = 0
    /\ agents = Reverse(Roster(config))
    /\ ticks = 5
    /\ result \in LiveSummaries

----------------------------------------------------------------------------
(* Properties of the heartbeats *)

\* The Heartbeat signals of worker a that are live and not expired.
HeartbeatsOf(a) ==
    {h \in Live : /\ signals[h].payload.kind = "Heartbeat"
                  /\ signals[h].origin_agent_id = a
                  /\ ~ExpiredNow(signals[h])}

\* C31 (as claimed): at the end of every completed iteration of the driver
\* each worker of the roster has exactly one live Heartbeat signal, and
\* that signal carries the worker's current capacity.
C31_Claimed_OneCurrentHeartbeat ==
    pc = "scan" =>
        \A a \in Workers :
            \E h \in HeartbeatsOf(a) :
                /\ HeartbeatsOf(a) = {h}
                /\ signals[h].payload.arg = capacity(a, processed[a])

----------------------------------------------------------------------------
(***************************************************************************)
(* Field::sense and Field::sense_by_type (robin-core field.rs).  A caller  *)
(* holds a field with signals of any payload variants, lets time pass with *)
(* Field::tick and takes the two views of the field at a minimum           *)
(* intensity, given in tenths.                                             *)
(***************************************************************************)

(* Inputs *)

\* The variants of OsintPayload
Variants ==
    {"UserQuery", "RefinedQuery", "RawResult", "FilteredResult", "ScrapedContent",
     "ExtractedArtifacts", "Insight", "Summary", "EnrichedArtifacts",
     "BlockchainAnalysis", "PasteContent", "Heartbeat", "TaskClaim"}

\* The confidence the signals of the field were built with: 1.0 or 0.5.
ViewCalls == {Call(DEFAULT_TTL, CScale), Call(DEFAULT_TTL, CScale \div 2)}

\* The min_intensity arguments, in tenths: 0.0, 0.1, 0.5, 1.0.
MinIntensities == {0, 1, 5, 10}

\* The fields of SignalsByType
Buckets ==
    {"user_queries", "refined_queries", "raw_results", "filtered_results",
     "scraped_content", "extracted_artifacts", "enriched_artifacts", "insights",
     "summaries", "heartbeats", "task_claims"}

\* Field::sense
sense(sigs, now, tenths) == {h \in DOMAIN sigs : effective_at_least(sigs[h], now, tenths)}

\* The arms of the match of sense_by_type: the bucket a variant is pushed
\* to.  SignalsByType has no field, and the match no arm, for
\* BlockchainAnalysis and PasteContent.
Arms ==
    [UserQuery |-> "user_queries", RefinedQuery |-> "refined_queries",
     RawResult |-> "raw_results", FilteredResult |-> "filtered_results",
     ScrapedContent |-> "scraped_content", ExtractedArtifacts |-> "extracted_artifacts",
     EnrichedArtifacts |-> "enriched_artifacts", Insight |-> "insights",
     Summary |-> "summaries", Heartbeat |-> "heartbeats", TaskClaim |-> "task_claims"]

\* Field::sense_by_type: the signals of sense pushed to the bucket of their
\* arm.
sense_by_type(sigs, now, tenths) ==
    [b \in Buckets |->
        {h \in sense(sigs, now, tenths) :
            /\ sigs[h].payload.kind \in DOMAIN Arms
            /\ Arms[sigs[h].payload.kind] = b}]

\* One signal per variant of a set, built and emitted one by one.
RECURSIVE emit_variants(_, _, _)
emit_variants(sigs, ks, b) ==
    IF ks = {} THEN sigs
    ELSE LET k == CHOOSE x \in ks : TRUE
             p == Payload(k, "x")
         IN  emit_variants(emit(sigs, build(b, p, "agent-1", 0, <<p, "agent-1", 0>>)),
                           ks \ {k}, b)

\* The field holds one or two signals of different variants.
InitSense ==
    /\ \E ks \in {s \in SUBSET Variants : Cardinality(s) \in 1..2}, b \in ViewCalls :
           signals = emit_variants(<<>>, ks, b)
    /\ history = <<>>
    /\ current_time = 0
    /\ wall = 0
    /\ built = [h \in Hashes |-> 0]
    /\ steps = 0
    /\ emitted = [h \in Hashes |-> 0]
    /\ external = {}
    /\ fresh = {}
    /\ last = NoOp
    /\ Idle("direct")
    /\ priority = <<>>
    /\ NoAgents
    /\ NoFilter
    /\ NoHelpers

\* `field.sense(min)` and `field.sense_by_type(min)` on the same field
SenseByType(tenths) ==
    /\ pc = "direct"
    /\ by_type' = [min_intensity |-> tenths, field |-> signals, now |-> current_time,
                   sense |-> sense(signals, current_time, tenths),
                   buckets |-> sense_by_type(signals, current_time, tenths)]
    /\ UNCHANGED <<fieldVars, swarmVars, agentVars, filterVars, query, encoded,
                   engine_results, deduped, emitted_hashes>>

NextSense ==
    \/ \E dt \in DirectDt : DirectTick(dt)
    \/ \E m \in MinIntensities : SenseByType(m)

SpecSense == InitSense /\ [][NextSense]_vars

(* Properties of the views *)

\* C32 (as claimed): sense_by_type(m) is sense(m) partitioned by payload
\* tag: each signal sense(m) returned is in exactly one bucket, the bucket
\* of its own tag, and the buckets hold nothing else, for every variant.
C32_Claimed_PartitionOfSense ==
    by_type # <<>> =>
        /\ \A h \in by_type.sense :
               Cardinality({b \in Buckets : h \in by_type.buckets[b]}) = 1
        /\ \A b \in Buckets : by_type.buckets[b] \subseteq by_type.sense
        /\ \A b \in Buckets : \A h, g \in by_type.buckets[b] : h[1].kind = g[1].kind
        /\ \A b, c \in Buckets : \A h \in by_type.buckets[b], g \in by_type.buckets[c] :
               h[1].kind = g[1].kind => b = c

----------------------------------------------------------------------------
(***************************************************************************)
(* The url encoder of the search engines (robin-core search_engines.rs).   *)
(* A query string is a sequence of chars, each a Unicode code point; the   *)
(* encoder's output is a sequence of ASCII characters, each its code.      *)
(***************************************************************************)

(* Bound of the exploration: the length of the query string *)

MaxQueryLen == 3

(* Inputs *)

\* The chars of a query: a - space + % and the non-ASCII chars e-acute
\* (U+00E9) and l-stroke (U+0142).
QueryChars == {97, 45, 32, 43, 37, 233, 322}

QueryStrings == UNION {[1..n -> QueryChars] : n \in 0..MaxQueryLen}

\* 'a'..='z' | 'A'..='Z' | '0'..='9' | '-' | '_' | '.' | '~'
unreserved(c) == c \in (97..122) \cup (65..90) \cup (48..57) \cup {45, 95, 46, 126}

\* `c as u8`: the low byte of the code point
as_u8(c) == c % 256

\* One digit of `{:02X}`: 0-9 and A-F
hex_digit(n) == IF n < 10 THEN 48 + n ELSE 55 + n

\* The arm of the match for one char.
encode_char(c) ==
    IF unreserved(c) THEN <<c>>
    ELSE IF c = 32 THEN <<43>>
    ELSE <<37, hex_digit(as_u8(c) \div 16), hex_digit(as_u8(c) % 16)>>

\* urlencoded: the arms' strings collected in order
RECURSIVE urlencoded(_)
urlencoded(s) == IF s = <<>> THEN <<>> ELSE encode_char(Head(s)) \o urlencoded(Tail(s))

InitUrl ==
    /\ NewField
    /\ Idle("query")
    /\ priority = <<>>
    /\ NoAgents
    /\ NoFilter
    /\ by_type = <<>>
    /\ query \in QueryStrings
    /\ encoded = <<>>
    /\ engine_results = <<>>
    /\ deduped = <<>>
    /\ emitted_hashes = <<>>

\* SearchEngine::build_url: the query encoded for the template
BuildUrl ==
    /\ pc = "query"
    /\ encoded' = urlencoded(query)
    /\ pc' = "encoded"
    /\ UNCHANGED <<fieldVars, config, idx, ticks, start, deadline, processed, active, call,
                   result, outcome, visits, emit_log, erred, exit_code, summary_file,
                   agents, agentVars, filterVars, by_type, query, engine_results, deduped,
                   emitted_hashes>>

NextUrl == BuildUrl

SpecUrl == InitUrl /\ [][NextUrl]_vars

(* Properties of the encoder *)

\* The value of a hexadecimal digit.
hex_value(d) == IF d >= 65 THEN d - 55 ELSE d - 48

\* URL-decoding to bytes: '+' is a space, %HH the byte HH.
RECURSIVE percent_decode(_)
percent_decode(t) ==
    IF t = <<>> THEN <<>>
    ELSE IF Head(t) = 43 THEN <<32>> \o percent_decode(Tail(t))
    ELSE IF Head(t) = 37 /\ Len(t) >= 3
         THEN <<16 * hex_value(t[2]) + hex_value(t[3])>> \o percent_decode(SubSeq(t, 4, Len(t)))
         ELSE <<Head(t)>> \o percent_decode(Tail(t))

\* The bytes read as UTF-8, up to two-byte sequences; a byte that begins no
\* valid sequence reads as U+FFFD.
RECURSIVE utf8_decode(_)
utf8_decode(bytes) ==
    IF bytes = <<>> THEN <<>>
    ELSE IF Head(bytes) < 128 THEN <<Head(bytes)>> \o utf8_decode(Tail(bytes))
    ELSE IF /\ Head(bytes) \in 194..223
            /\ Len(bytes) >= 2
            /\ bytes[2] \in 128..191
         THEN <<(Head(bytes) - 192) * 64 + (bytes[2] - 128)>>
              \o utf8_decode(SubSeq(bytes, 3, Len(bytes)))
         ELSE <<65533>> \o utf8_decode(Tail(bytes))

\* C33 (as claimed): for every query string, URL-decoding the encoder's
\* output (with '+' as space) yields the original string.
C33_Claimed_DecodesToQuery ==
    pc = "encoded" => utf8_decode(percent_decode(encoded)) = query

----------------------------------------------------------------------------
(***************************************************************************)
(* One crawl (robin-tor crawler.rs crawl_engines) and the loop of the      *)
(* crawler's process that emits its results (robin-agents crawler.rs).  A  *)
(* url is a sequence of characters.                                        *)
(***************************************************************************)

(* Bound of the exploration: the number of results the engines return *)

MaxResults == 3

(* Inputs *)

\* The urls the engines can return: one page written in several ways, and
\* two others.
ResultUrls ==
    {<<"a">>, <<"A">>, <<"a", "/">>, <<"a", "/", "/">>, <<"b">>, <<"B", "/">>}

\* `results.into_iter().flatten()`: the results of all engines, in the
\* order the engines completed.
EngineResults == UNION {[1..n -> ResultUrls] : n \in 0..MaxResults}

\* `trim_end_matches('/')`: every trailing '/' is removed
RECURSIVE trim_end_matches(_)
trim_end_matches(url) ==
    IF url # <<>> /\ url[Len(url)] = "/"
    THEN trim_end_matches(SubSeq(url, 1, Len(url) - 1))
    ELSE url

\* `to_lowercase()`
to_lowercase(url) ==
    [i \in DOMAIN url |-> CASE url[i] = "A" -> "a" [] url[i] = "B" -> "b" [] OTHER -> url[i]]

\* Mutant of the key: the case is kept.
normalized_keep_case(url) == trim_end_matches(url)

\* `result.url.trim_end_matches('/').to_lowercase()`
normalized(url) == to_lowercase(trim_end_matches(url))

\* The loop over the flattened results: a result is pushed when its key was
\* not seen.
RECURSIVE dedup(_, _, _)
dedup(rest, seen, out) ==
    IF rest = <<>> THEN out
    ELSE IF normalized(Head(rest)) \in seen
         THEN dedup(Tail(rest), seen, out)
         ELSE dedup(Tail(rest), seen \cup {normalized(Head(rest))}, Append(out, Head(rest)))

\* The loop of process over the results: one signal built and emitted per
\* result.
RECURSIVE emit_results(_, _, _, _)
emit_results(sigs, rest, a, now) ==
    IF rest = <<>> THEN sigs
    ELSE LET p == Payload("RawResult", Head(rest))
         IN  emit_results(emit(sigs, build(RawResultCall, p, a, now, <<p, a, 0>>)),
                          Tail(rest), a, now)

InitCrawl ==
    /\ NewField
    /\ Idle("crawl")
    /\ priority = <<>>
    /\ NoAgents
    /\ NoFilter
    /\ by_type = <<>>
    /\ query = <<>>
    /\ encoded = <<>>
    /\ engine_results \in EngineResults
    /\ deduped = <<>>
    /\ emitted_hashes = <<>>

\* crawl_engines after the engines answered: flatten and deduplicate.
CrawlEngines ==
    /\ pc = "crawl"
    /\ deduped' = dedup(engine_results, {}, <<>>)
    /\ pc' = "crawled"
    /\ UNCHANGED <<fieldVars, config, idx, ticks, start, deadline, processed, active, call,
                   result, outcome, visits, emit_log, erred, exit_code, summary_file,
                   agents, agentVars, filterVars, by_type, query, encoded, engine_results,
                   emitted_hashes>>

\* `for result in results { ... field.emit(result_signal); emitted.push(hash) }`
EmitRawResults ==
    /\ pc = "crawled"
    /\ signals' = emit_results(signals, deduped, "crawler-1", wall)
    /\ emitted_hashes' = [k \in DOMAIN deduped |->
                             compute_origin_hash(Payload("RawResult", deduped[k]), "crawler-1")]
    /\ pc' = "emitted"
    /\ UNCHANGED <<history, current_time, wall, built, steps, emitted, external, fresh, last,
                   config, idx, ticks, start, deadline, processed, active, call,
                   result, outcome, visits, emit_log, erred, exit_code, summary_file,
                   agents, agentVars, filterVars, by_type, query, encoded, engine_results,
                   deduped>>

NextCrawl ==
    \/ CrawlEngines
    \/ EmitRawResults

SpecCrawl == InitCrawl /\ [][NextCrawl]_vars

(* Properties of the crawl *)

\* The claim's own reading of "equal after stripping trailing '/' and
\* lowercasing": the urls agree, letter case apart, up to their last
\* character that is no '/'.
Folded(c) == IF c = "A" THEN "a" ELSE IF c = "B" THEN "b" ELSE c

Bare(url) ==
    LET n == CHOOSE k \in 0..Len(url) :
                 /\ k = 0 \/ url[k] # "/"
                 /\ \A i \in (k + 1)..Len(url) : url[i] = "/"
    IN  [i \in 1..n |-> Folded(url[i])]

SameUrl(u, v) == Bare(u) = Bare(v)

\* C34: the result list of one crawl holds no two results whose urls are
\* equal after stripping trailing '/' and lowercasing; it holds, in their
\* order, the first occurrence of every url the engines returned; and the
\* crawler emits exactly one RawResult per result of that list.
C34_CrawlDeduplicated ==
    /\ pc \in {"crawled", "emitted"} =>
        /\ \A j, k \in DOMAIN deduped : SameUrl(deduped[j], deduped[k]) => j = k
        /\ \A i \in DOMAIN engine_results :
               \E k \in DOMAIN deduped : SameUrl(engine_results[i], deduped[k])
        /\ \E f \in [DOMAIN deduped -> DOMAIN engine_results] :
               /\ \A k \in DOMAIN deduped :
                      /\ engine_results[f[k]] = deduped[k]
                      /\ \A i \in 1..(f[k] - 1) : ~SameUrl(engine_results[i], deduped[k])
               /\ \A j, k \in DOMAIN deduped : j < k => f[j] < f[k]
    /\ pc = "emitted" =>
        /\ Len(emitted_hashes) = Len(deduped)
        /\ \A k \in DOMAIN deduped :
               /\ emitted_hashes[k] = <<Payload("RawResult", deduped[k]), "crawler-1">>
               /\ emitted_hashes[k] \in Live
        /\ Cardinality({h \in Live : h[1].kind = "RawResult"}) = Len(deduped)

\* Three results came back, the third the first one with a trailing '/':
\* the crawler emitted two RawResults.
C34_Witness ==
    /\ pc = "emitted"
    /\ Len(engine_results) = 3
    /\ engine_results[3] = Append(engine_results[1], "/")
    /\ ~SameUrl(engine_results[1], engine_results[2])
    /\ Len(deduped) = 2
    /\ Cardinality({h \in Live : h[1].kind = "RawResult"}) = 2

----------------------------------------------------------------------------
(* Properties of the scraper and the analyst over any field *)

\* C35 (as claimed): a scraper fetches any given url at most once over its
\* lifetime, whatever the field holds: the fetches of one activation are
\* of different urls, and of no url the scraper had in its scraped set when
\* the activation began.
C35_Claimed_FetchedAtMostOnce ==
    (activation.agent = Worker /\ agent_type(Worker) = "scraper") =>
        /\ \A x, y \in activation.attempted : key_of(x) = key_of(y) => x = y
        /\ \A x \in activation.attempted : key_of(x) \notin activation.seen

\* The urls of the ScrapedContent signals in a map of signals.
ScrapedUrls(sigs) == {h[1].arg : h \in Contents(sigs)}

\* C36 (as claimed): whenever the analyst emits a Summary, at least 3
\* distinct urls have live ScrapedContent and the Summary's source_count is
\* the number of distinct scraped urls, for every number of scrapers.
C36_Claimed_SummaryOfThreeUrls ==
    (Closed /\ agent_type(Worker) = "analyst" /\ Summaries(activation.emits) # {}) =>
        /\ Cardinality(ScrapedUrls(activation.before)) >= 3
        /\ activation.source_count = Cardinality(ScrapedUrls(activation.before))

----------------------------------------------------------------------------
(* Properties of the run in any order: the crawlers *)

\* The crawlers of the roster.
Crawlers == {agents[i] : i \in {j \in DOMAIN agents : agent_type(agents[j]) = "crawler"}}

\* C37 (as claimed): for every priority in [0, 1] given to submit_query,
\* the RefinedQuery the refiner emits (in the first iteration) is sensed and
\* processed by each crawler no later than the iteration after its
\* emission: when the second iteration has ended, every crawler has it in
\* its processed queries.
C37_Claimed_CrawledByNextTick ==
    (ticks >= 2 /\ BetweenIterations) => \A c \in Crawlers : Query \in processed[c]

(* Properties of sense and process over any field *)

\* Signals of the given variants whose effective intensity is at or above
\* the worker's sensing threshold.
sense_above(sigs, now, kinds) ==
    {h \in DOMAIN sigs :
        /\ sigs[h].payload.kind \in kinds
        /\ effective_at_least(sigs[h], now, sensing_threshold)}

\* OsintAgent::sense of each worker: the signals it reports as its work.
agent_sense(a, sigs, now, seen) ==
    CASE agent_type(a) = "refiner" -> sense_new(sigs, now, "UserQuery", seen)
      [] agent_type(a) = "crawler" -> sense_new(sigs, now, "RefinedQuery", seen)
      [] agent_type(a) = "filter" -> sense_above(sigs, now, {"RawResult"})
      [] agent_type(a) = "scraper" -> sense_new(sigs, now, "FilteredResult", seen)
      [] agent_type(a) = "extractor" -> sense_new(sigs, now, "ScrapedContent", seen)
      [] agent_type(a) = "enricher" -> sense_above(sigs, now, {"ExtractedArtifacts"})
      [] agent_type(a) = "analyst" ->
            IF "summary" \in seen THEN {}
            ELSE sense_above(sigs, now, {"ScrapedContent", "ExtractedArtifacts"})

\* C38 (as the specification states it): for every worker and every field
\* state, if the worker's sense returns no signal then its process emits
\* nothing.  The activation recorded the field and the local set that
\* process started from.
C38_Claimed_NoSenseNoEmit ==
    (/\ activation.agent # ""
     /\ agent_sense(activation.agent, activation.before, current_time,
                    activation.seen) = {})
        => activation.emits = {}

(* Properties of an emit after the expiry *)

\* The hash was emitted before and is not live: tick found its signal
\* expired and removed it.
ExpiredAndRemoved(h) == built[h] > 0 /\ h \notin DOMAIN signals

\* The places in history that hold a signal of the hash.
Copies(h) == {i \in DOMAIN history : history[i].origin_hash = h}

\* C39: after a signal with hash h has expired and been removed by tick,
\* the next emit of a signal with hash h inserts a fresh live signal
\* (reinforcement_count 0, empty reinforced_by, the new signal's created_at
\* and confidence) instead of reinforcing or reviving the expired one, and
\* the copy in history is unchanged.
C39_EmitAfterExpiryIsFresh ==
    [][\A h \in Hashes :
          (/\ ExpiredAndRemoved(h)
           /\ last'.kind = "emit"
           /\ last'.hash = h
           /\ built'[h] = built[h] + 1)
              => /\ h \in DOMAIN signals'
                 /\ signals'[h] = last'.given
                 /\ signals'[h].reinforcement_count = 0
                 /\ signals'[h].reinforced_by = <<>>
                 /\ signals'[h].created_at = wall
                 /\ signals'[h].confidence = last'.given.confidence
                 /\ history' = history]_vars

\* an emit right after its hash expired: history holds the expired signal,
\* reinforced by another agent, and the live signal is a later build
C39_Witness ==
    /\ last.kind = "emit"
    /\ last.before = NoSignal
    /\ last.hash \in Live
    /\ signals[last.hash].reinforcement_count = 0
    /\ \E i \in Copies(last.hash) :
          /\ history[i].reinforcement_count > 0
          /\ history[i].id # signals[last.hash].id

(* Properties of the run without a runtime limit *)

\* C40: with max_runtime_secs = 0 the runtime is unlimited: Swarm::run
\* never returns None, and it returns only from the scan at the end of an
\* iteration, with the markdown of a Summary signal the scan found.
C40_UnlimitedReturnsOnlySummary ==
    [][config.max_runtime_secs = 0 =>
          /\ result' # "None"
          /\ (pc # "returned" /\ pc' = "returned") =>
                 /\ pc = "scan"
                 /\ idx = Len(agents)
                 /\ \E h \in Live : h[1].kind = "Summary" /\ result' = signals[h].payload.arg]_vars

\* a run without a limit that returned its summary after more time than
\* the limit of the other configurations allows
C40_Witness ==
    /\ config.max_runtime_secs = 0
    /\ pc = "returned"
    /\ result \in LiveSummaries
    /\ wall - start > 6 * 1000

====
